---- MODULE Spec2Model ----
(***************************************************************************)
(* Model of the play-money prediction market (src/app): the slash-command  *)
(* handlers create, buy, sell, resolve and cancel of commands.py, the      *)
(* helpers of models.py and the LMSR pricing functions of lmsr.py.         *)
(*                                                                         *)
(* Numbers.  The program keeps balances, share counts, outcome quantities  *)
(* and costs as Python floats.  The model keeps them as integers counting  *)
(* ticks, Unit ticks to 1.0: every float operation is the exact operation  *)
(* followed by rounding to the representable grid, the grid being the      *)
(* ticks instead of the binary64 grid.  math.exp and math.log are          *)
(* evaluated in fixed point, Precision to 1.0.                             *)
(*                                                                         *)
(* Requests.  routes.handle_request runs one command and then commits, or  *)
(* rolls the session back when the command raises.  One action of the      *)
(* model is one request: a request that raises leaves every table as it    *)
(* was and only records its error in `last`.                               *)
(***************************************************************************)
EXTENDS Integers, Sequences, FiniteSets, TLC

(***************************************************************************)
(* Bounds of the model.                                                    *)
(***************************************************************************)
MaxTime == 2
MaxTrades == 2
Unit == 10
Precision == 10000

\* The days of a month (utils.month_bounds_london), scaled to the clock.
DaysPerMonth == 2
\* The accounts of a month that is closed on accounts of any bet counts.
MaxAccounts == 5
\* The significant bits of a float, where sums are rounded as floats.
Mantissa == 4
\* The outcomes of a market handed to the pricing functions alone.
MaxOutcomes == 3
\* The trades made on one outcome where shares are added as floats.
MaxFloatTrades == 3

(***************************************************************************)
(* Configuration (config.py, every value overridable by the environment).  *)
(***************************************************************************)
STARTING_BALANCE == 2 * Unit
DAILY_TOPUP == 1 * Unit
BALANCE_CAP == (7 * Unit) \div 2
DEFAULT_LIQUIDITY_B == 2 * Unit
TASK_SECRET == "s"
\* os.environ ADMIN_SLACK_IDS, as the users it names.
ADMIN_SLACK_IDS == {1}

Users == {1, 2}
\* The users who create markets: users differ in nothing but their key.
Creators == {1}
MarketNames == {"m1"}
ClosingTimes == 1..MaxTime
\* The spends a buy may name.
Spends == {0, 2 * Unit}
\* The spends of the bets placed around the closing of a month.
Stakes == {Unit}
\* The share counts a sell may name, besides exactly what the seller holds.
ShareCounts == {0, 2 * Unit, 4 * Unit}
\* What outcomes_csv splits into (commands.py line 147): one symbol (too few),
\* two symbols, the same symbol twice.
\* The outcomes_csv of a create request, as the fields between its commas.
OutcomeLists ==
    {<<"A">>, <<"A", "B">>, <<"A", "A">>, <<"A", "">>, <<" A", " ", "B">>}
\* Outcome symbols a request may name: exact, lower case, and one no market has.
SymbolInputs == {"A", "B", "a", "Z"}

\* The secret a task request may carry: the right one, or none.
Secrets == {"s", ""}

\* NULL in a nullable column.
None == -1

VARIABLES
    now,         \* the clock: utils.now() and the London date, in days
    markets,     \* table market, by name
    outcomes,    \* table outcome: per market the rows in outcome_id order
    positions,   \* table position: shares by user, market, outcome index
    cycles,      \* table cycle, by key
    usercycles,  \* table user_cycle, by cycle key and user
    trades,      \* table trade, in trade_id order
    last,        \* the last request and the response it got
    pricing,     \* the cost function the search of buy evaluates
    db_rows,     \* the rows of user_cycle and position, one by one, with the
                 \* transaction that inserted each and whether it committed
    sessions,    \* the request each worker is serving, and where it stands
    tally,       \* the account rows handed to the closing of a month, and
                 \* the median, the eligible rows and the winner it computed
    calc         \* the arguments handed to the pricing functions, and what
                 \* they returned

vars ==
    <<now, markets, outcomes, positions, cycles, usercycles, trades, last,
      pricing, db_rows, sessions, tally, calc>>
\* What the requests served one at a time leave alone.
aside == <<pricing, db_rows, sessions, tally, calc>>
\* What the steps of two requests served at once leave alone.
served ==
    <<now, markets, outcomes, positions, cycles, usercycles, trades, last,
      pricing, tally, calc>>
tables == <<markets, outcomes, positions, cycles, usercycles, trades>>

(***************************************************************************)
(* lmsr.py: the pricing functions.                                         *)
(***************************************************************************)
\* float("inf"): larger than every finite value of the model.
inf == 1000000000

isinf(c) == c = inf
isfinite(c) == c # inf

\* math.exp(r/b) in fixed point, 0 <= r <= b: the Taylor series, summed until
\* the terms vanish.
RECURSIVE exp_series(_, _, _, _)
exp_series(term, k, r, b) ==
    IF term = 0 THEN 0
    ELSE term + exp_series((term * r) \div (b * k), k + 1, r, b)

exp_frac(r, b) == exp_series(Precision, 1, r, b)

\* acc / e^n in fixed point: n divisions by e, cut short once acc is 0.
RECURSIVE exp_neg_steps(_, _)
exp_neg_steps(acc, n) ==
    IF n = 0 \/ acc = 0 THEN acc
    ELSE exp_neg_steps((acc * Precision) \div exp_frac(1, 1), n - 1)

\* math.exp(-n) in fixed point, n a natural number.
exp_neg_int(n) == exp_neg_steps(Precision, n)

\* math.exp(-d/b) in fixed point, d >= 0: exp(-(d div b)) / exp((d mod b)/b).
\* It underflows to 0 as the float does.
exp_neg(d, b) == (exp_neg_int(d \div b) * Precision) \div exp_frac(d % b, b)

RECURSIVE atanh_series(_, _, _)
atanh_series(pow, z, k) ==
    IF pow = 0 THEN 0
    ELSE pow \div k
         + atanh_series((((pow * z) \div Precision) * z) \div Precision, z, k + 2)

\* math.log(s) in fixed point, s >= 1: 2 * atanh((s - 1) / (s + 1)).
\* z is bound to its value, which the series then reads without computing
\* it again.
log_fx(s) ==
    CHOOSE r \in {2 * atanh_series(z, z, 1) :
                    z \in {((s - Precision) * Precision) \div (s + Precision)}} :
        TRUE

\* Rounding of a fixed-point value to the grid of the stored numbers.
round_fx(x) == (x + Precision \div 2) \div Precision

max(a, b) == IF a >= b THEN a ELSE b

RECURSIVE seq_max(_)
seq_max(qs) ==
    IF Len(qs) = 1 THEN qs[1] ELSE max(qs[1], seq_max(Tail(qs)))

RECURSIVE seq_sum(_)
seq_sum(xs) == IF xs = <<>> THEN 0 ELSE xs[1] + seq_sum(Tail(xs))

\* b * x for a fixed-point x, on the grid of the stored numbers.
scaled(b, x) == (b \div Precision) * x + round_fx((b % Precision) * x)

\* A result too large for a float is inf.
finite_or_inf(x) == IF x >= inf THEN inf ELSE x

\* b * (m + log(s)), m = max_q / b.
log_sum(max_q, s, b) ==
    IF s <= 0 THEN inf ELSE finite_or_inf(max_q + scaled(b, log_fx(s)))

\* s is bound to its value, which is computed once.
lmsr_result(max_q, s, b) ==
    CHOOSE r \in {log_sum(max_q, v, b) : v \in {s}} : TRUE

\* q / b_float in fixed point; inf when the quotient is too large for a
\* float.
quotient(q, b) ==
    IF q \div b >= inf \div Precision THEN inf
    ELSE (q \div b) * Precision + ((q % b) * Precision) \div b

\* sum(exp(q/b - m) for q in qs), m = max_q / b.
sum_exps(qs, b, max_q) ==
    seq_sum([i \in 1..Len(qs) |-> exp_neg(max_q - qs[i], b)])

shifted_cost(qs, b, max_q) == lmsr_result(max_q, sum_exps(qs, b, max_q), b)

\* Fault injection: the cost is not finite on a market nobody has traded on.
lmsr_cost_failing_on_zeros(qs, b) ==
    IF Len(qs) = 0 THEN 0
    ELSE IF b <= 0 \/ seq_max(qs) = 0 THEN inf
    ELSE IF isinf(quotient(seq_max(qs), b)) THEN inf
    ELSE shifted_cost(qs, b, seq_max(qs))

lmsr_cost(qs, b) ==
    IF Len(qs) = 0 THEN 0
    ELSE IF b <= 0 THEN inf
    ELSE IF isinf(quotient(seq_max(qs), b)) THEN inf   \* the result is nan
    ELSE shifted_cost(qs, b, seq_max(qs))

\* float("nan"): the result of inf - inf and of every operation on it.
nan == 0 - inf - 1
isnan(x) == x = nan

\* [1.0 / len(qs)] * len(qs)
uniform_prices(n) == [i \in 1..n |-> (Precision + n \div 2) \div n]

\* math.exp((q / b_float) - m), m = max_q / b_float.
shifted_exp(q, b, max_q) ==
    IF isinf(quotient(max_q, b))
    THEN IF isinf(quotient(q, b)) THEN nan   \* exp(inf - inf)
         ELSE 0                              \* exp(-inf)
    ELSE exp_neg(max_q - q, b)

\* sum(exps)
RECURSIVE float_sum(_)
float_sum(xs) ==
    IF xs = <<>> THEN 0
    ELSE IF isnan(xs[1]) \/ isnan(float_sum(Tail(xs))) THEN nan
    ELSE xs[1] + float_sum(Tail(xs))

\* [e / s for e in exps], each quotient rounded to the nearest.
normalized(exps, s) ==
    IF isnan(s) THEN [i \in 1..Len(exps) |-> nan]
    ELSE IF s <= 0 THEN uniform_prices(Len(exps))
    ELSE [i \in 1..Len(exps) |-> (exps[i] * Precision + s \div 2) \div s]

exps_of(qs, b, max_q) == [i \in 1..Len(qs) |-> shifted_exp(qs[i], b, max_q)]

lmsr_prices(qs, b) ==
    IF Len(qs) = 0 THEN <<>>
    ELSE IF b <= 0 THEN uniform_prices(Len(qs))
    ELSE normalized(exps_of(qs, b, seq_max(qs)),
                    float_sum(exps_of(qs, b, seq_max(qs))))

\* cost2 - cost1, inf when it is negative or not finite.
increase(cost1, cost2) ==
    IF isinf(cost1) \/ isinf(cost2) \/ cost2 - cost1 < 0 THEN inf
    ELSE cost2 - cost1

\* The two costs are bound to their values, which are computed once.
cost_increase(cost1, cost2) ==
    CHOOSE r \in {increase(c[1], c[2]) : c \in {<<cost1, cost2>>}} : TRUE

buy_cost(qs, b, idx, dq) ==
    IF dq <= 0 \/ b <= 0 \/ Len(qs) = 0 \/ idx < 1 \/ idx > Len(qs) THEN inf
    ELSE cost_increase(lmsr_cost(qs, b), lmsr_cost([qs EXCEPT ![idx] = @ + dq], b))

\* max(0.0, cost1 - cost2)
refund_of(cost1, cost2) ==
    IF isinf(cost1) /\ isinf(cost2) THEN 0        \* max(0.0, nan)
    ELSE IF isinf(cost1) THEN inf
    ELSE IF isinf(cost2) \/ cost1 - cost2 < 0 THEN 0
    ELSE cost1 - cost2

sell_refund(qs, b, idx, dq) ==
    IF dq <= 0 \/ qs[idx] < dq THEN 0
    ELSE refund_of(lmsr_cost(qs, b), lmsr_cost([qs EXCEPT ![idx] = @ - dq], b))

(***************************************************************************)
(* models.py: the helpers.                                                 *)
(***************************************************************************)
\* A table is a function from the keys of its rows; adding or replacing a row:
Put(table, key, row) ==
    [k \in DOMAIN table \cup {key} |-> IF k = key THEN row ELSE table[k]]

min(a, b) == IF a <= b THEN a ELSE b

\* datetime.now(LONDON_TZ).date()
today == now

\* utils.cycle_key_for_dt: the month of the day.
cycle_key_for_dt(day) == day \div DaysPerMonth

\* The key of the row get_or_create_cycle returns; the row is added to
\* `cycles` by the handlers that call it and commit.
get_or_create_cycle == cycle_key_for_dt(today)

new_cycle ==
    [median_bets |-> None, winner_slack_id |-> None, when_closed |-> None]

\* The table cycle after get_or_create_cycle() returned the row of `key`.
cycle_rows(cs, key) ==
    IF key \in DOMAIN cs THEN cs ELSE Put(cs, key, new_cycle)

new_usercycle ==
    [balance |-> STARTING_BALANCE, bet_count |-> 0, last_topup_date |-> None]

\* Fault injection: a new row is made whether or not the account exists.
get_or_create_usercycle_anew(ucs, cycle, user) ==
    Put(ucs, <<cycle, user>>, new_usercycle)

\* The table user_cycle after get_or_create_usercycle(cycle, user).
get_or_create_usercycle(ucs, cycle, user) ==
    IF <<cycle, user>> \in DOMAIN ucs THEN ucs
    ELSE Put(ucs, <<cycle, user>>, new_usercycle)

\* Fault injection: the top-up added without the ceiling.
ensure_daily_topup_uncapped(uc) ==
    IF uc.last_topup_date = today THEN uc
    ELSE [uc EXCEPT !.balance = @ + DAILY_TOPUP, !.last_topup_date = today]

\* The row uc after ensure_daily_topup_for_usercycle(uc).
ensure_daily_topup_for_usercycle(uc) ==
    IF uc.last_topup_date = today THEN uc
    ELSE [uc EXCEPT !.balance = min(BALANCE_CAP, @ + DAILY_TOPUP),
                    !.last_topup_date = today]

get_outcomes(market_name) == outcomes[market_name]

\* Fault injection: a market closed by its closing time alone.
market_is_closed_by_time_only(market) ==
    IF market.when_closes < now THEN TRUE ELSE FALSE

market_is_closed(market) ==
    IF market.status # "open" THEN TRUE
    ELSE IF market.when_cancelled # None THEN TRUE
    ELSE IF market.when_closes < now THEN TRUE
    ELSE FALSE

\* str.upper on the symbols of the model.
upper(sym) == IF sym = "a" THEN "A" ELSE sym

\* The first outcome, in outcome_id order, whose symbol matches ignoring case
\* (0: none), as the loops of buy and sell find it.
find_outcome(outs, outcome_symbol) ==
    LET hits == {i \in 1..Len(outs) : upper(outs[i].symbol) = upper(outcome_symbol)}
    IN IF hits = {} THEN 0 ELSE CHOOSE i \in hits : \A j \in hits : i <= j

\* Outcome.query.filter(symbol == winning_outcome).first(): an exact match.
find_outcome_exact(outs, winning_outcome) ==
    LET hits == {i \in 1..Len(outs) : outs[i].symbol = winning_outcome}
    IN IF hits = {} THEN 0 ELSE CHOOSE i \in hits : \A j \in hits : i <= j

quantities(outs) == [i \in 1..Len(outs) |-> outs[i].q]

(***************************************************************************)
(* commands.py, buy: the search for the trade size.  The constants of the  *)
(* search on the grid of the model: a positive constant below the grid     *)
(* step is the step when it is a threshold that a value must reach, and 0  *)
(* when it is a seed or a slack that is added.                             *)
(***************************************************************************)
\* seed_values = [1e-12, 1e-9, 1e-6, 1e-4, 1e-2, 1e-1, 1.0]
seed_values == <<0, 0, 0, 0, Unit \div 100, Unit \div 10, Unit>>
\* cap = 1e12, scaled to the integers of the model checker.
cap == 1000000
\* high < 1e-18
MIN_HIGH == 1
\* range(60)
BISECT_ITERATIONS == 60
\* dq < 1e-8
MIN_DQ == 1
\* cost > uc.balance + 1e-6
BALANCE_SLACK == 0

\* The cost function of the program.
LMSR == [base |-> 0, num |-> 0, den |-> 1, inf_from |-> 0, inf_to |-> 0]
\* A cost function so cheap that the expansion of the bracket runs to its cap.
NearlyFree ==
    [base |-> 1, num |-> 1, den |-> 100000, inf_from |-> 0, inf_to |-> 0]
\* The same, failing to evaluate on a band of sizes below the cap that the
\* binary search steps into.
NearlyFreeWithGap ==
    [base |-> 1, num |-> 1, den |-> 100000, inf_from |-> 700000,
     inf_to |-> 800000]
\* The cost functions the search is run on: LMSR, the two above, one tick per
\* share, the same above a floor that the smallest trade already costs, one
\* that fails to evaluate above a size, and
\* one that costs nothing at the sizes the search starts from.
CostFunctions ==
    {LMSR, NearlyFree, NearlyFreeWithGap,
     [base |-> 0, num |-> 1, den |-> 1, inf_from |-> 0, inf_to |-> 0],
     [base |-> (5 * Unit) \div 2, num |-> 1, den |-> 1, inf_from |-> 0,
      inf_to |-> 0],
     [base |-> 1, num |-> 1, den |-> 4, inf_from |-> 4 * Unit, inf_to |-> inf],
     [base |-> 0, num |-> 1, den |-> 100000, inf_from |-> 0, inf_to |-> 0]}
\* The budgets of the buys the search is run on.
Budgets == {1, Unit \div 2, Unit, 2 * Unit, 3 * Unit, 5 * Unit}

\* A cost function increasing in the trade size: base + dq * num / den, and
\* inf (an evaluation that fails) for dq <= 0 and for dq in inf_from..inf_to.
priced(fn, dq_val) ==
    IF dq_val <= 0 \/ (fn.inf_from <= dq_val /\ dq_val <= fn.inf_to) THEN inf
    ELSE fn.base + (dq_val * fn.num) \div fn.den

\* buy_cost, or inf when it raises.  The search knows the cost function by
\* its values alone: `pricing` says which one is evaluated.
safe_buy_cost(qs, b, idx, dq_val) ==
    IF pricing = LMSR THEN buy_cost(qs, b, idx, dq_val)
    ELSE priced(pricing, dq_val)

\* The body of the seed loop for one seed whose cost is c: the bracket it sets
\* when c is finite and positive.
seed_bracket(seed, c, spend_f) ==
    IF c > spend_f
    THEN [high |-> seed, low |-> 0, best_dq |-> 0, best_cost |-> 0,
          failed |-> FALSE]
    ELSE [high |-> seed * 2, low |-> seed, best_dq |-> seed, best_cost |-> c,
          failed |-> FALSE]

\* for seed in seed_values: the first seed with a finite positive cost sets the
\* bracket; high = None when no seed has one.
RECURSIVE seed_loop(_, _, _, _, _)
seed_try(k, c, qs, b, idx, spend_f) ==
    IF isfinite(c) /\ c > 0 THEN seed_bracket(seed_values[k], c, spend_f)
    ELSE seed_loop(k + 1, qs, b, idx, spend_f)

seed_loop(k, qs, b, idx, spend_f) ==
    IF k > Len(seed_values)
    THEN [high |-> None, low |-> 0, best_dq |-> 0, best_cost |-> 0,
          failed |-> FALSE]
    ELSE seed_try(k, safe_buy_cost(qs, b, idx, seed_values[k]), qs, b, idx, spend_f)

\* Fault injection: the expansion has no safety cap.
expand_again_uncapped(st, c, spend_f) == isfinite(c) /\ c <= spend_f

\* while True: double high until the cost exceeds the spend, is infinite, or
\* high passes the cap.  failed: the raise of line 262.
\* The body of the while loop runs to its end, and the loop goes round again,
\* when none of the three breaks is taken.
expand_again(st, c, spend_f) ==
    isfinite(c) /\ c <= spend_f /\ st.high <= cap

\* The body of the while loop, the cost at high being c.
expand_body(st, c, spend_f) ==
    IF isinf(c)
    THEN [st EXCEPT !.high = st.high \div 2,
                    !.failed = st.high \div 2 <= st.low \/ st.high \div 2 < MIN_HIGH]
    ELSE IF c > spend_f THEN st
    ELSE IF st.high > cap THEN st
    ELSE [st EXCEPT !.low = st.high, !.best_dq = st.high,
                    !.best_cost = c, !.high = st.high * 2]

RECURSIVE expand_loop(_, _, _, _, _)
expand_step(st, c, qs, b, idx, spend_f) ==
    IF expand_again(st, c, spend_f)
    THEN expand_loop(expand_body(st, c, spend_f), qs, b, idx, spend_f)
    ELSE expand_body(st, c, spend_f)

expand_loop(st, qs, b, idx, spend_f) ==
    expand_step(st, safe_buy_cost(qs, b, idx, st.high), qs, b, idx, spend_f)

\* One iteration of the binary search, mid = (low + high) / 2.0 costing cost.
bisect_update(st, mid, cost, spend_f) ==
    IF isinf(cost) THEN [st EXCEPT !.high = mid]
    ELSE IF cost > spend_f THEN [st EXCEPT !.high = mid]
    ELSE [st EXCEPT !.low = mid, !.best_dq = mid, !.best_cost = cost]

bisect_step(st, qs, b, idx, spend_f) ==
    bisect_update(st, (st.low + st.high) \div 2,
                  safe_buy_cost(qs, b, idx, (st.low + st.high) \div 2), spend_f)

\* for iteration in range(60).  An iteration that changes nothing is repeated
\* unchanged by all that follow, so the loop is cut there.
RECURSIVE bisect_loop(_, _, _, _, _, _)
bisect_next(iteration, st, nxt, qs, b, idx, spend_f) ==
    IF nxt = st THEN st
    ELSE bisect_loop(iteration + 1, nxt, qs, b, idx, spend_f)

bisect_loop(iteration, st, qs, b, idx, spend_f) ==
    IF iteration = BISECT_ITERATIONS THEN st
    ELSE bisect_next(iteration, st, bisect_step(st, qs, b, idx, spend_f),
                     qs, b, idx, spend_f)

\* Fault injection: the validation lets a trade of any size through.
validate_trade_of_any_size(dq, cost, spend_f, balance) ==
    [error |-> IF isinf(cost) \/ cost < 0 \/ cost * 100 > spend_f * 101
               THEN "TradeCalculationFailed"
               ELSE IF cost > balance + BALANCE_SLACK
               THEN "InsufficientBalance"
               ELSE "ok",
     dq |-> dq, cost |-> cost]

\* The validation of lines 295-301: the error raised ("ok": none).
validate_trade(dq, cost, spend_f, balance) ==
    [error |-> IF dq < MIN_DQ \/ isinf(cost) \/ cost < 0
                  \/ cost * 100 > spend_f * 101
               THEN "TradeCalculationFailed"
               ELSE IF cost > balance + BALANCE_SLACK
               THEN "InsufficientBalance"
               ELSE "ok",
     dq |-> dq, cost |-> cost]

search_expanded(expanded, qs, b, idx, spend_f) ==
    IF expanded.failed THEN expanded
    ELSE bisect_loop(0, expanded, qs, b, idx, spend_f)

search_seeded(seeded, qs, b, idx, spend_f) ==
    IF seeded.high = None THEN seeded
    ELSE search_expanded(expand_loop(seeded, qs, b, idx, spend_f),
                         qs, b, idx, spend_f)

located(found, spend_f, balance) ==
    IF found.high = None
    THEN [error |-> "MarketIllLiquid", dq |-> 0, cost |-> 0]
    ELSE IF found.failed
    THEN [error |-> "InvalidCost", dq |-> 0, cost |-> 0]
    ELSE validate_trade(found.best_dq, found.best_cost, spend_f, balance)

\* Lines 229-301 of buy: the error the search raises ("ok": none) and the
\* trade it locates.
locate_trade(qs, b, idx, spend_f, balance) ==
    located(search_seeded(seed_loop(1, qs, b, idx, spend_f), qs, b, idx, spend_f),
            spend_f, balance)

(***************************************************************************)
(* routes.handle_request: a command that returns is committed, a command   *)
(* that raises is rolled back; either way the response is recorded.        *)
(***************************************************************************)
Response(op, user, market_name, amount, result) ==
    [op |-> op, user |-> user, market |-> market_name, amount |-> amount,
     result |-> result]

\* Fault injection: the request that raises is committed as far as it got,
\* the caller's account created and topped up.
Raise_committing(op, user, market_name, amount, error) ==
    /\ last' = Response(op, user, market_name, amount, error)
    /\ usercycles' =
           Put(usercycles, <<get_or_create_cycle, user>>,
               ensure_daily_topup_for_usercycle(
                   get_or_create_usercycle(usercycles, get_or_create_cycle, user)
                       [<<get_or_create_cycle, user>>]))
    /\ cycles' = cycle_rows(cycles, get_or_create_cycle)
    /\ UNCHANGED <<now, markets, outcomes, positions, trades>>

\* raise PredictionsError (or any other exception): db.session.rollback().
Raise(op, user, market_name, amount, error) ==
    /\ last' = Response(op, user, market_name, amount, error)
    /\ UNCHANGED <<now, markets, outcomes, positions, cycles, usercycles, trades>>

(***************************************************************************)
(* commands.py: the handlers.                                              *)
(***************************************************************************)
\* str.strip() on the fields of the model.
strip(field) ==
    CASE field = " " -> ""
      [] field = " A" -> "A"
      [] OTHER -> field

\* [s.strip() for s in outcomes_csv.split(",") if s.strip()]
split_symbols(outcomes_csv) ==
    LET stripped == [i \in 1..Len(outcomes_csv) |-> strip(outcomes_csv[i])]
    IN SelectSeq(stripped, LAMBDA sym : sym # "")

\* Fault injection: the market flushed before the outcomes are counted is
\* stored, with the outcomes there are, when there are too few.
create_keeping_market(user, market_name, when_closes, outcomes_csv) ==
    IF market_name \in DOMAIN markets
    THEN Raise("create", user, market_name, 0, "DuplicateName")
    ELSE /\ markets' = Put(markets, market_name,
                           [creator_user_id |-> user, when_closes |-> when_closes,
                            status |-> "open", resolved_outcome_id |-> None,
                            when_resolved |-> None, when_cancelled |-> None,
                            b |-> DEFAULT_LIQUIDITY_B])
         /\ outcomes' = Put(outcomes, market_name,
                            [i \in 1..Len(split_symbols(outcomes_csv)) |->
                                [symbol |-> split_symbols(outcomes_csv)[i], q |-> 0]])
         /\ last' = Response("create", user, market_name, 0,
                             IF Len(split_symbols(outcomes_csv)) < 2
                             THEN "TooFewOutcomes" ELSE "ok")
         /\ UNCHANGED <<now, positions, cycles, usercycles, trades>>

\* Fault injection: the table outcome has no unique constraint on the symbol.
create_without_unique_symbols(user, market_name, when_closes, outcomes_csv) ==
    IF market_name \in DOMAIN markets
    THEN Raise("create", user, market_name, 0, "DuplicateName")
    ELSE IF Len(split_symbols(outcomes_csv)) < 2
    THEN Raise("create", user, market_name, 0, "TooFewOutcomes")
    ELSE /\ markets' = Put(markets, market_name,
                           [creator_user_id |-> user, when_closes |-> when_closes,
                            status |-> "open", resolved_outcome_id |-> None,
                            when_resolved |-> None, when_cancelled |-> None,
                            b |-> DEFAULT_LIQUIDITY_B])
         /\ outcomes' = Put(outcomes, market_name,
                            [i \in 1..Len(split_symbols(outcomes_csv)) |->
                                [symbol |-> split_symbols(outcomes_csv)[i], q |-> 0]])
         /\ last' = Response("create", user, market_name, 0, "ok")
         /\ UNCHANGED <<now, positions, cycles, usercycles, trades>>

create(user, market_name, when_closes, outcomes_csv) ==
    LET symbols == split_symbols(outcomes_csv)
    IN
    IF market_name \in DOMAIN markets
    THEN Raise("create", user, market_name, 0, "DuplicateName")
    ELSE IF Len(symbols) < 2
    THEN Raise("create", user, market_name, 0, "TooFewOutcomes")
    ELSE IF \E i, j \in 1..Len(symbols) : i # j /\ symbols[i] = symbols[j]
    THEN \* uniq_market_symbol fails at the commit
         Raise("create", user, market_name, 0, "InternalError")
    ELSE /\ markets' = Put(markets, market_name,
                           [creator_user_id |-> user, when_closes |-> when_closes,
                            status |-> "open", resolved_outcome_id |-> None,
                            when_resolved |-> None, when_cancelled |-> None,
                            b |-> DEFAULT_LIQUIDITY_B])
         /\ outcomes' = Put(outcomes, market_name,
                            [i \in 1..Len(symbols) |-> [symbol |-> symbols[i], q |-> 0]])
         /\ last' = Response("create", user, market_name, 0, "ok")
         /\ UNCHANGED <<now, positions, cycles, usercycles, trades>>

\* Fault injection: buy applied in part, the quantity and the position updated
\* but the balance not debited.
buy_execute_without_debit(user, market_name, spend_f, cycle, ucs, uc, target_idx, dq, cost) ==
    /\ usercycles' = Put(ucs, <<cycle, user>>, [uc EXCEPT !.bet_count = @ + 1])
    /\ outcomes' = [outcomes EXCEPT ![market_name][target_idx].q = @ + dq]
    /\ positions' = Put(positions, <<user, market_name, target_idx>>,
                        IF <<user, market_name, target_idx>> \in DOMAIN positions
                        THEN positions[<<user, market_name, target_idx>>] + dq
                        ELSE 0 + dq)
    /\ trades' = Append(trades,
                        [cycle_id |-> cycle, user_id |-> user,
                         market |-> market_name, outcome |-> target_idx,
                         side |-> "buy", shares |-> dq, amount |-> cost])
    /\ cycles' = cycle_rows(cycles, cycle)
    /\ last' = Response("buy", user, market_name, spend_f, "ok")
    /\ UNCHANGED <<now, markets>>

\* Fault injection: the buyer is charged the budget and the cost.
buy_execute_charging_budget(user, market_name, spend_f, cycle, ucs, uc, target_idx, dq, cost) ==
    /\ usercycles' = Put(ucs, <<cycle, user>>,
                         [uc EXCEPT !.balance = @ - (spend_f + cost),
                                    !.bet_count = @ + 1])
    /\ outcomes' = [outcomes EXCEPT ![market_name][target_idx].q = @ + dq]
    /\ positions' = Put(positions, <<user, market_name, target_idx>>,
                        IF <<user, market_name, target_idx>> \in DOMAIN positions
                        THEN positions[<<user, market_name, target_idx>>] + dq
                        ELSE 0 + dq)
    /\ trades' = Append(trades,
                        [cycle_id |-> cycle, user_id |-> user,
                         market |-> market_name, outcome |-> target_idx,
                         side |-> "buy", shares |-> dq,
                         amount |-> spend_f + cost])
    /\ cycles' = cycle_rows(cycles, cycle)
    /\ last' = Response("buy", user, market_name, spend_f, "ok")
    /\ UNCHANGED <<now, markets>>

\* Lines 303-337 of buy: the trade is executed.
buy_execute(user, market_name, spend_f, cycle, ucs, uc, target_idx, dq, cost) ==
    /\ usercycles' = Put(ucs, <<cycle, user>>,
                         [uc EXCEPT !.balance = @ - cost, !.bet_count = @ + 1])
    /\ outcomes' = [outcomes EXCEPT ![market_name][target_idx].q = @ + dq]
    /\ positions' = Put(positions, <<user, market_name, target_idx>>,
                        IF <<user, market_name, target_idx>> \in DOMAIN positions
                        THEN positions[<<user, market_name, target_idx>>] + dq
                        ELSE 0 + dq)
    /\ trades' = Append(trades,
                        [cycle_id |-> cycle, user_id |-> user,
                         market |-> market_name, outcome |-> target_idx,
                         side |-> "buy", shares |-> dq, amount |-> cost])
    /\ cycles' = cycle_rows(cycles, cycle)
    /\ last' = Response("buy", user, market_name, spend_f, "ok")
    /\ UNCHANGED <<now, markets>>

buy_located(user, market_name, spend_f, cycle, ucs, uc, target_idx, trade) ==
    IF trade.error # "ok"
    THEN Raise("buy", user, market_name, spend_f, trade.error)
    ELSE buy_execute(user, market_name, spend_f, cycle, ucs, uc, target_idx,
                     trade.dq, trade.cost)

\* Lines 181-301 of buy, with the account uc fetched and topped up.
buy_priced(user, market_name, spend_f, cycle, ucs, uc, target_idx, qs, b) ==
    IF uc.balance < spend_f
    THEN Raise("buy", user, market_name, spend_f, "InsufficientBalance")
    ELSE IF Len(qs) < 2
    THEN Raise("buy", user, market_name, spend_f, "Misconfigured")
    ELSE IF target_idx = 0
    THEN Raise("buy", user, market_name, spend_f, "UnknownOutcome")
    ELSE IF b <= 0
    THEN Raise("buy", user, market_name, spend_f, "InvalidParams")
    ELSE IF isinf(lmsr_cost(qs, b))
    THEN Raise("buy", user, market_name, spend_f, "StateInvalid")
    ELSE buy_located(user, market_name, spend_f, cycle, ucs, uc, target_idx,
                     locate_trade(qs, b, target_idx, spend_f, uc.balance))

\* Lines 177-179 of buy: the account of the current cycle, created if the
\* user has none, then topped up.
buy_account(user, market_name, outcome_symbol, spend_f, cycle, ucs) ==
    buy_priced(user, market_name, spend_f, cycle, ucs,
               ensure_daily_topup_for_usercycle(ucs[<<cycle, user>>]),
               find_outcome(get_outcomes(market_name), outcome_symbol),
               quantities(get_outcomes(market_name)), markets[market_name].b)

buy(user, market_name, outcome_symbol, spend_f) ==
    IF spend_f <= 0
    THEN Raise("buy", user, market_name, spend_f, "InvalidAmount")
    ELSE IF market_name \notin DOMAIN markets
    THEN Raise("buy", user, market_name, spend_f, "UnknownMarket")
    ELSE IF market_is_closed(markets[market_name])
    THEN Raise("buy", user, market_name, spend_f, "MarketClosed")
    ELSE buy_account(user, market_name, outcome_symbol, spend_f,
                     get_or_create_cycle,
                     get_or_create_usercycle(usercycles, get_or_create_cycle, user))

\* Fault injection: sell that credits the refund without taking the shares
\* out of the position.
sell_execute_keeping_shares(user, market_name, shares_f, cycle, ucs, uc, idx, refund) ==
    IF refund < 0
    THEN Raise("sell", user, market_name, shares_f, "InvalidRefund")
    ELSE /\ positions' = positions
         /\ outcomes' = [outcomes EXCEPT ![market_name][idx].q = @ - shares_f]
         /\ usercycles' = Put(ucs, <<cycle, user>>,
                              [uc EXCEPT !.balance = @ + refund, !.bet_count = @ + 1])
         /\ trades' = Append(trades,
                             [cycle_id |-> cycle, user_id |-> user,
                              market |-> market_name, outcome |-> idx,
                              side |-> "sell", shares |-> shares_f,
                              amount |-> refund])
         /\ cycles' = cycle_rows(cycles, cycle)
         /\ last' = Response("sell", user, market_name, shares_f, "ok")
         /\ UNCHANGED <<now, markets>>

\* Fault injection: sell that does not count the trade as a bet.
sell_execute_uncounted(user, market_name, shares_f, cycle, ucs, uc, idx, refund) ==
    IF refund < 0
    THEN Raise("sell", user, market_name, shares_f, "InvalidRefund")
    ELSE /\ positions' = [positions EXCEPT ![<<user, market_name, idx>>] = @ - shares_f]
         /\ outcomes' = [outcomes EXCEPT ![market_name][idx].q = @ - shares_f]
         /\ usercycles' = Put(ucs, <<cycle, user>>, [uc EXCEPT !.balance = @ + refund])
         /\ trades' = Append(trades,
                             [cycle_id |-> cycle, user_id |-> user,
                              market |-> market_name, outcome |-> idx,
                              side |-> "sell", shares |-> shares_f,
                              amount |-> refund])
         /\ cycles' = cycle_rows(cycles, cycle)
         /\ last' = Response("sell", user, market_name, shares_f, "ok")
         /\ UNCHANGED <<now, markets>>

\* Lines 404-421 of sell: the trade is executed.
sell_execute(user, market_name, shares_f, cycle, ucs, uc, idx, refund) ==
    IF refund < 0
    THEN Raise("sell", user, market_name, shares_f, "InvalidRefund")
    ELSE /\ positions' = [positions EXCEPT ![<<user, market_name, idx>>] = @ - shares_f]
         /\ outcomes' = [outcomes EXCEPT ![market_name][idx].q = @ - shares_f]
         /\ usercycles' = Put(ucs, <<cycle, user>>,
                              [uc EXCEPT !.balance = @ + refund, !.bet_count = @ + 1])
         /\ trades' = Append(trades,
                             [cycle_id |-> cycle, user_id |-> user,
                              market |-> market_name, outcome |-> idx,
                              side |-> "sell", shares |-> shares_f,
                              amount |-> refund])
         /\ cycles' = cycle_rows(cycles, cycle)
         /\ last' = Response("sell", user, market_name, shares_f, "ok")
         /\ UNCHANGED <<now, markets>>

\* Fault injection: sell without the checks of the seller's shares and of the
\* outcome's quantity.
sell_priced_unchecked(user, market_name, shares_f, cycle, ucs, uc, idx, outs, b) ==
    IF Len(outs) = 0
    THEN Raise("sell", user, market_name, shares_f, "Misconfigured")
    ELSE IF idx = 0
    THEN Raise("sell", user, market_name, shares_f, "UnknownOutcome")
    ELSE IF <<user, market_name, idx>> \notin DOMAIN positions
    THEN Raise("sell", user, market_name, shares_f, "InsufficientShares")
    ELSE sell_execute(user, market_name, shares_f, cycle, ucs, uc, idx,
                      sell_refund(quantities(outs), b, idx, shares_f))

\* Lines 368-402 of sell, with the account uc fetched and topped up.
sell_priced(user, market_name, shares_f, cycle, ucs, uc, idx, outs, b) ==
    IF Len(outs) = 0
    THEN Raise("sell", user, market_name, shares_f, "Misconfigured")
    ELSE IF idx = 0
    THEN Raise("sell", user, market_name, shares_f, "UnknownOutcome")
    ELSE IF \/ <<user, market_name, idx>> \notin DOMAIN positions
            \/ positions[<<user, market_name, idx>>] < shares_f
    THEN Raise("sell", user, market_name, shares_f, "InsufficientShares")
    ELSE IF outs[idx].q < shares_f
    THEN Raise("sell", user, market_name, shares_f, "InsufficientLiquidity")
    ELSE sell_execute(user, market_name, shares_f, cycle, ucs, uc, idx,
                      sell_refund(quantities(outs), b, idx, shares_f))

\* Lines 364-366 of sell: the account of the current cycle, created if the
\* user has none, then topped up.
sell_account(user, market_name, outcome_symbol, shares_f, cycle, ucs) ==
    sell_priced(user, market_name, shares_f, cycle, ucs,
                ensure_daily_topup_for_usercycle(ucs[<<cycle, user>>]),
                find_outcome(get_outcomes(market_name), outcome_symbol),
                get_outcomes(market_name), markets[market_name].b)

sell(user, market_name, outcome_symbol, shares_f) ==
    IF shares_f <= 0
    THEN Raise("sell", user, market_name, shares_f, "InvalidAmount")
    ELSE IF market_name \notin DOMAIN markets
    THEN Raise("sell", user, market_name, shares_f, "UnknownMarket")
    ELSE IF market_is_closed(markets[market_name])
    THEN Raise("sell", user, market_name, shares_f, "MarketClosed")
    ELSE sell_account(user, market_name, outcome_symbol, shares_f,
                      get_or_create_cycle,
                      get_or_create_usercycle(usercycles, get_or_create_cycle, user))

\* Fault injection: a creator check that lets every user through.
is_creator_anyone(m, user) == TRUE

\* m.creator_user_id != user.user_id, negated: the check of resolve and cancel.
is_creator(m, user) == m.creator_user_id = user

\* Fault injection: the loop of resolve crediting the shares without the
\* daily top-up.
RECURSIVE award_shares_without_topup(_, _, _, _, _)
award_shares_without_topup(ucs, holders, market_name, out, cycle) ==
    IF holders = {} THEN ucs
    ELSE LET user == CHOOSE u \in holders : TRUE
             ucs1 == get_or_create_usercycle(ucs, cycle, user)
             uc == ucs1[<<cycle, user>>]
             p == positions[<<user, market_name, out>>]
         IN award_shares_without_topup(
                Put(ucs1, <<cycle, user>>, [uc EXCEPT !.balance = @ + p]),
                holders \ {user}, market_name, out, cycle)

\* Fault injection: the loop of resolve crediting each holder's account of
\* the cycle in which the holder first bought.
RECURSIVE award_shares_where_bought(_, _, _, _, _)
award_shares_where_bought(ucs, holders, market_name, out, cycle) ==
    IF holders = {} THEN ucs
    ELSE LET user == CHOOSE u \in holders : TRUE
             bought == trades[CHOOSE n \in 1..Len(trades) :
                                 /\ trades[n].user_id = user
                                 /\ \A i \in 1..(n - 1) : trades[i].user_id # user
                             ].cycle_id
             ucs1 == get_or_create_usercycle(ucs, bought, user)
             uc == ensure_daily_topup_for_usercycle(ucs1[<<bought, user>>])
             p == positions[<<user, market_name, out>>]
         IN award_shares_where_bought(
                Put(ucs1, <<bought, user>>, [uc EXCEPT !.balance = @ + p]),
                holders \ {user}, market_name, out, cycle)

\* The loop of resolve over the position rows of the winning outcome: each
\* holder's account of the current cycle is fetched or created, topped up and
\* credited the shares of the row.
RECURSIVE award_shares(_, _, _, _, _)
award_shares(ucs, holders, market_name, out, cycle) ==
    IF holders = {} THEN ucs
    ELSE LET user == CHOOSE u \in holders : TRUE
             ucs1 == get_or_create_usercycle(ucs, cycle, user)
             uc == ensure_daily_topup_for_usercycle(ucs1[<<cycle, user>>])
             p == positions[<<user, market_name, out>>]
         IN award_shares(Put(ucs1, <<cycle, user>>, [uc EXCEPT !.balance = @ + p]),
                         holders \ {user}, market_name, out, cycle)

resolve(user, market_name, winning_outcome) ==
    IF market_name \notin DOMAIN markets
    THEN Raise("resolve", user, market_name, 0, "UnknownMarket")
    ELSE
    LET m == markets[market_name]
        out == find_outcome_exact(outcomes[market_name], winning_outcome)
        cycle == get_or_create_cycle
        holders == {u \in Users : <<u, market_name, out>> \in DOMAIN positions}
    IN
    IF m.status = "resolved"
    THEN Raise("resolve", user, market_name, 0, "AlreadyResolved")
    ELSE IF m.when_cancelled # None
    THEN Raise("resolve", user, market_name, 0, "Cancelled")
    ELSE IF ~is_creator(m, user)
    THEN Raise("resolve", user, market_name, 0, "NotCreator")
    ELSE IF out = 0
    THEN Raise("resolve", user, market_name, 0, "UnknownOutcome")
    ELSE /\ usercycles' = award_shares(usercycles, holders, market_name, out, cycle)
         /\ markets' = [markets EXCEPT ![market_name].status = "resolved",
                                       ![market_name].resolved_outcome_id = out,
                                       ![market_name].when_resolved = now]
         /\ cycles' = cycle_rows(cycles, cycle)
         /\ last' = Response("resolve", user, market_name, 0, "ok")
         /\ UNCHANGED <<now, outcomes, positions, trades>>

\* Fault injection: cancel that sets the status and not the timestamp.
cancel_without_timestamp(user, market_name) ==
    IF market_name \notin DOMAIN markets
    THEN Raise("cancel", user, market_name, 0, "UnknownMarket")
    ELSE IF markets[market_name].when_cancelled # None
    THEN Raise("cancel", user, market_name, 0, "AlreadyCancelled")
    ELSE IF ~is_creator(markets[market_name], user)
    THEN Raise("cancel", user, market_name, 0, "NotCreator")
    ELSE /\ markets' = [markets EXCEPT ![market_name].status = "cancelled"]
         /\ last' = Response("cancel", user, market_name, 0, "ok")
         /\ UNCHANGED <<now, outcomes, positions, cycles, usercycles, trades>>

\* Fault injection: cancel that also returns the outcomes' quantities to 0.
cancel_resetting_quantities(user, market_name) ==
    IF market_name \notin DOMAIN markets
    THEN Raise("cancel", user, market_name, 0, "UnknownMarket")
    ELSE IF markets[market_name].when_cancelled # None
    THEN Raise("cancel", user, market_name, 0, "AlreadyCancelled")
    ELSE IF ~is_creator(markets[market_name], user)
    THEN Raise("cancel", user, market_name, 0, "NotCreator")
    ELSE /\ markets' = [markets EXCEPT ![market_name].when_cancelled = now,
                                       ![market_name].status = "cancelled"]
         /\ outcomes' = [outcomes EXCEPT ![market_name] =
                             [i \in 1..Len(@) |-> [@[i] EXCEPT !.q = 0]]]
         /\ last' = Response("cancel", user, market_name, 0, "ok")
         /\ UNCHANGED <<now, positions, cycles, usercycles, trades>>

\* Fault injection: cancel deletes the trades of the market from the log.
cancel_erasing_trades(user, market_name) ==
    IF market_name \notin DOMAIN markets
    THEN Raise("cancel", user, market_name, 0, "UnknownMarket")
    ELSE IF markets[market_name].when_cancelled # None
    THEN Raise("cancel", user, market_name, 0, "AlreadyCancelled")
    ELSE IF ~is_creator(markets[market_name], user)
    THEN Raise("cancel", user, market_name, 0, "NotCreator")
    ELSE /\ markets' = [markets EXCEPT ![market_name].when_cancelled = now,
                                       ![market_name].status = "cancelled"]
         /\ trades' = SelectSeq(trades, LAMBDA t : t.market # market_name)
         /\ last' = Response("cancel", user, market_name, 0, "ok")
         /\ UNCHANGED <<now, outcomes, positions, cycles, usercycles>>

\* Fault injection: cancel refuses a market that is closed to trading.
cancel_while_trading(user, market_name) ==
    IF market_name \notin DOMAIN markets
    THEN Raise("cancel", user, market_name, 0, "UnknownMarket")
    ELSE IF markets[market_name].when_cancelled # None
    THEN Raise("cancel", user, market_name, 0, "AlreadyCancelled")
    ELSE IF ~is_creator(markets[market_name], user)
    THEN Raise("cancel", user, market_name, 0, "NotCreator")
    ELSE IF market_is_closed(markets[market_name])
    THEN Raise("cancel", user, market_name, 0, "MarketClosed")
    ELSE /\ markets' = [markets EXCEPT ![market_name].when_cancelled = now,
                                       ![market_name].status = "cancelled"]
         /\ last' = Response("cancel", user, market_name, 0, "ok")
         /\ UNCHANGED <<now, outcomes, positions, cycles, usercycles, trades>>

cancel(user, market_name) ==
    IF market_name \notin DOMAIN markets
    THEN Raise("cancel", user, market_name, 0, "UnknownMarket")
    ELSE
    LET m == markets[market_name]
    IN
    IF m.when_cancelled # None
    THEN Raise("cancel", user, market_name, 0, "AlreadyCancelled")
    ELSE IF ~is_creator(m, user)
    THEN Raise("cancel", user, market_name, 0, "NotCreator")
    ELSE /\ markets' = [markets EXCEPT ![market_name].when_cancelled = now,
                                       ![market_name].status = "cancelled"]
         /\ last' = Response("cancel", user, market_name, 0, "ok")
         /\ UNCHANGED <<now, outcomes, positions, cycles, usercycles, trades>>

\* /predict balance: the caller's account of the current cycle is fetched or
\* created and topped up; the response shows its balance.
balance(user) ==
    LET cycle == get_or_create_cycle
        ucs == get_or_create_usercycle(usercycles, cycle, user)
        uc == ensure_daily_topup_for_usercycle(ucs[<<cycle, user>>])
    IN /\ usercycles' = Put(ucs, <<cycle, user>>, uc)
       /\ cycles' = cycle_rows(cycles, cycle)
       /\ last' = Response("balance", user, "", uc.balance, "ok")
       /\ UNCHANGED <<now, markets, outcomes, positions, trades>>

\* The rows of user_cycle of one cycle, as the keys of the table.
usercycle_keys(ucs, cycle) == {k \in DOMAIN ucs : k[1] = cycle}

\* UserCycle.query.filter(cycle_id == cycle).all() has no ORDER BY: the rows
\* come in any order.
usercycle_rows(ucs, cycle) ==
    LET keys == usercycle_keys(ucs, cycle)
        n == Cardinality(keys)
    IN {[i \in 1..n |-> [user |-> o[i][2],
                         bet_count |-> ucs[o[i]].bet_count,
                         balance |-> ucs[o[i]].balance]] :
            o \in {f \in [1..n -> keys] :
                       \A i, j \in 1..n : i # j => f[i] # f[j]}}

bet_counts(rows) == [i \in DOMAIN rows |-> rows[i].bet_count]

sorted(data) == SortSeq(data, LAMBDA x, y : x < y)

\* statistics.median of sorted data, in halves: the middle value, or the mean
\* of the two middle values, which is a float with fraction 0 or 0.5.
median(data) ==
    LET n == Len(data)
    IN IF n % 2 = 1 THEN 2 * data[(n + 1) \div 2]
       ELSE data[n \div 2] + data[n \div 2 + 1]

\* int(x) of a non-negative number x given in halves: the fraction is dropped.
int(halves) == halves \div 2

\* Fault injection: accounts with exactly the median bet count are eligible.
eligible_with_median(rows, med_val) ==
    SelectSeq(rows, LAMBDA r : r.bet_count >= med_val)

eligible(rows, med_val) == SelectSeq(rows, LAMBDA r : r.bet_count > med_val)

\* Fault injection: the winner is the first eligible row.
winner_first(rs) == IF rs = <<>> THEN None ELSE rs[1].user

\* max(eligible, key=balance, default=None): the first row of the largest
\* balance, as the user it belongs to.
winner(rs) ==
    IF rs = <<>> THEN None
    ELSE rs[CHOOSE i \in DOMAIN rs :
                /\ \A j \in DOMAIN rs : rs[j].balance <= rs[i].balance
                /\ \A j \in 1..(i - 1) : rs[j].balance < rs[i].balance].user

\* What close_month records for the rows of the cycle.
close_record(rows, med_val) ==
    [median_bets |-> med_val,
     winner_slack_id |-> winner(eligible(rows, med_val)),
     when_closed |-> now]

\* Fault injection: a closed cycle can be closed again.
close_month_again(user, rows) ==
    LET cycle == get_or_create_cycle
        cs == cycle_rows(cycles, cycle)
    IN
    IF ADMIN_SLACK_IDS # {} /\ user \notin ADMIN_SLACK_IDS
    THEN Raise("close_month", user, "", 0, "NotAdmin")
    ELSE IF rows = <<>>
    THEN /\ cycles' = Put(cs, cycle, [median_bets |-> 0,
                                      winner_slack_id |-> None,
                                      when_closed |-> now])
         /\ last' = Response("close_month", user, "", 0, "ok")
         /\ UNCHANGED <<now, markets, outcomes, positions, usercycles, trades>>
    ELSE /\ cycles' = Put(cs, cycle,
                          close_record(rows, int(median(sorted(bet_counts(rows))))))
         /\ last' = Response("close_month", user, "", 0, "ok")
         /\ UNCHANGED <<now, markets, outcomes, positions, usercycles, trades>>

close_month(user, rows) ==
    LET cycle == get_or_create_cycle
        cs == cycle_rows(cycles, cycle)
    IN
    IF ADMIN_SLACK_IDS # {} /\ user \notin ADMIN_SLACK_IDS
    THEN Raise("close_month", user, "", 0, "NotAdmin")
    ELSE IF cs[cycle].when_closed # None
    THEN Raise("close_month", user, "", 0, "AlreadyClosed")
    ELSE IF rows = <<>>
    THEN /\ cycles' = Put(cs, cycle, [median_bets |-> 0,
                                      winner_slack_id |-> None,
                                      when_closed |-> now])
         /\ last' = Response("close_month", user, "", 0, "ok")
         /\ UNCHANGED <<now, markets, outcomes, positions, usercycles, trades>>
    ELSE /\ cycles' = Put(cs, cycle,
                          close_record(rows, int(median(sorted(bet_counts(rows))))))
         /\ last' = Response("close_month", user, "", 0, "ok")
         /\ UNCHANGED <<now, markets, outcomes, positions, usercycles, trades>>

(***************************************************************************)
(* tasks.py: the scheduled endpoints.                                      *)
(***************************************************************************)
\* Fault injection: the sweep credits every account of the cycle.
sweep_topup_always(uc) ==
    [uc EXCEPT !.balance = min(BALANCE_CAP, @ + DAILY_TOPUP),
               !.last_topup_date = today]

\* The body of the loop of task_daily_topup on one row.
sweep_topup(uc) ==
    IF uc.last_topup_date # today
    THEN [uc EXCEPT !.balance = min(BALANCE_CAP, @ + DAILY_TOPUP),
                    !.last_topup_date = today]
    ELSE uc

\* GET /tasks/daily_topup?secret=...
task_daily_topup(secret) ==
    IF TASK_SECRET # "" /\ secret # TASK_SECRET
    THEN /\ last' = Response("daily_topup", 0, "", 0, "forbidden")
         /\ UNCHANGED <<now, markets, outcomes, positions, cycles, usercycles,
                        trades>>
    ELSE LET cycle == get_or_create_cycle
         IN /\ usercycles' =
                   [k \in DOMAIN usercycles |->
                       IF k[1] = cycle THEN sweep_topup(usercycles[k])
                       ELSE usercycles[k]]
            /\ cycles' = cycle_rows(cycles, cycle)
            /\ last' = Response("daily_topup", 0, "", 0, "ok")
            /\ UNCHANGED <<now, markets, outcomes, positions, trades>>

\* The user row with slack_id "SYSTEM" that task_monthly_close fetches or
\* creates: a user that is none of the members.
SYSTEM == 3

\* GET /tasks/monthly_close?secret=...: close_month as the SYSTEM user; an
\* exception of close_month is rolled back and answered with status 500.
task_monthly_close(secret, rows) ==
    IF TASK_SECRET # "" /\ secret # TASK_SECRET
    THEN /\ last' = Response("monthly_close", SYSTEM, "", 0, "forbidden")
         /\ UNCHANGED <<now, markets, outcomes, positions, cycles, usercycles,
                        trades>>
    ELSE close_month(SYSTEM, rows)

(***************************************************************************)
(* The system: requests arrive one at a time, and time passes.             *)
(***************************************************************************)
NoRequest == Response("none", 0, "", 0, "none")

\* No rows handed to the closing of a month yet.
NoTally ==
    [rows |-> <<>>, done |-> FALSE, med_val |-> None, eligible |-> <<>>,
     winner |-> None]

\* Nothing handed to the pricing functions.
NoCalc == [fn |-> "none"]

\* The workers that serve requests at the same time.
Workers == {1, 2}

\* A worker between requests, with the result of the request it served last.
Idle(result) ==
    [pc |-> "idle", op |-> "none", user |-> 0, outcome |-> 0, result |-> result]

Start ==
    /\ now = 0
    /\ markets = <<>>
    /\ outcomes = <<>>
    /\ positions = <<>>
    /\ cycles = <<>>
    /\ usercycles = <<>>
    /\ trades = <<>>
    /\ last = NoRequest
    /\ db_rows = {}
    /\ sessions = [w \in Workers |-> Idle("none")]

Init == Start /\ pricing = LMSR /\ tally = NoTally /\ calc = NoCalc

Create ==
    /\ UNCHANGED aside
    /\ \E user \in Creators, market_name \in MarketNames,
          when_closes \in ClosingTimes, outcomes_csv \in OutcomeLists :
           create(user, market_name, when_closes, outcomes_csv)

\* The trade log is capped at MaxTrades rows: buy and sell requests arrive
\* while it is shorter.
Buy ==
    /\ UNCHANGED aside
    /\ Len(trades) < MaxTrades
    /\ \E user \in Users, market_name \in MarketNames,
          outcome_symbol \in SymbolInputs, spend \in Spends :
           buy(user, market_name, outcome_symbol, spend)

Holdings(user) == {positions[k] : k \in {p \in DOMAIN positions : p[1] = user}}

Sell ==
    /\ UNCHANGED aside
    /\ Len(trades) < MaxTrades
    /\ \E user \in Users, market_name \in MarketNames,
          outcome_symbol \in SymbolInputs :
           \E shares \in ShareCounts \cup Holdings(user) :
               sell(user, market_name, outcome_symbol, shares)

Resolve ==
    /\ UNCHANGED aside
    /\ \E user \in Users, market_name \in MarketNames,
          winning_outcome \in SymbolInputs :
           resolve(user, market_name, winning_outcome)

Cancel ==
    /\ UNCHANGED aside
    /\ \E user \in Users, market_name \in MarketNames : cancel(user, market_name)

(***************************************************************************)
(* The accounts and the cycle: the requests that fetch or create accounts, *)
(* top them up and close the month, around bets on one market.             *)
(***************************************************************************)
OpenMarket ==
    /\ UNCHANGED aside
    /\ \E market_name \in MarketNames :
           create(1, market_name, MaxTime, <<"A", "B">>)

Bet ==
    /\ UNCHANGED aside
    /\ Len(trades) < MaxTrades
    /\ \E user \in Users, market_name \in MarketNames, spend \in Stakes :
           buy(user, market_name, "A", spend)

Unwind ==
    /\ UNCHANGED aside
    /\ Len(trades) < MaxTrades
    /\ \E user \in Users, market_name \in MarketNames :
           \E shares \in Holdings(user) :
               sell(user, market_name, "A", shares)

Settle ==
    /\ UNCHANGED aside
    /\ \E market_name \in MarketNames : resolve(1, market_name, "A")

Balance ==
    /\ UNCHANGED aside
    /\ \E user \in Users : balance(user)

CloseMonth ==
    /\ UNCHANGED aside
    /\ \E user \in Users :
           \E rows \in usercycle_rows(usercycles, get_or_create_cycle) :
               close_month(user, rows)

DailyTopup ==
    /\ UNCHANGED aside
    /\ \E secret \in Secrets : task_daily_topup(secret)

Tick ==
    /\ UNCHANGED aside
    /\ now < MaxTime
    /\ now' = now + 1
    /\ last' = NoRequest
    /\ UNCHANGED <<markets, outcomes, positions, cycles, usercycles, trades>>

Next == Create \/ Buy \/ Sell \/ Resolve \/ Cancel \/ Tick

Spec == Init /\ [][Next]_vars

PeriodNext ==
    \/ OpenMarket \/ Bet \/ Unwind \/ Settle
    \/ Balance \/ CloseMonth \/ DailyTopup \/ Tick

PeriodSpec == Init /\ [][PeriodNext]_vars

(***************************************************************************)
(* The scheduled endpoints around the accounts of the members: the month   *)
(* is closed by the task or by a member's command.                         *)
(***************************************************************************)
MonthlyClose ==
    /\ UNCHANGED aside
    /\ \E secret \in Secrets :
           \E rows \in usercycle_rows(usercycles, get_or_create_cycle) :
               task_monthly_close(secret, rows)

ScheduleNext == Balance \/ DailyTopup \/ MonthlyClose \/ CloseMonth \/ Tick

ScheduleSpec == Init /\ [][ScheduleNext]_vars

(***************************************************************************)
(* The trade log: every kind of request that is served, one at a time,     *)
(* around bets on one market.                                              *)
(***************************************************************************)
Void ==
    /\ UNCHANGED aside
    /\ \E market_name \in MarketNames : cancel(1, market_name)

LedgerNext ==
    \/ OpenMarket \/ Bet \/ Unwind \/ Settle \/ Void
    \/ CloseMonth \/ DailyTopup \/ Tick

LedgerSpec == Init /\ [][LedgerNext]_vars

(***************************************************************************)
(* The search of buy on any cost function: buys of any budget on one       *)
(* market, the cost function drawn at the start.                           *)
(***************************************************************************)
Wager ==
    /\ UNCHANGED aside
    /\ Len(trades) < MaxTrades
    /\ \E user \in Users, market_name \in MarketNames,
          outcome_symbol \in {"A", "B"}, spend \in Budgets :
           buy(user, market_name, outcome_symbol, spend)

PricingInit ==
    Start /\ pricing \in CostFunctions /\ tally = NoTally /\ calc = NoCalc

PricingNext == OpenMarket \/ Wager \/ Tick

PricingSpec == PricingInit /\ [][PricingNext]_vars

\* Every request of the markets, on any of the cost functions.
TradingSpec == PricingInit /\ [][Next]_vars

(***************************************************************************)
(* Two requests at once.  Each worker serves a balance or a buy request in *)
(* its own transaction, step by step: the lookup of the account, its       *)
(* insert, the lookup of the position, its insert, the commit.  A lookup   *)
(* sees the db_rows committed and the session's own (PostgreSQL, read         *)
(* committed); an insert goes through the unique index of the table.       *)
(***************************************************************************)
\* Fault injection: the tables have no unique index.
indexed_none(table, key) == {}

\* The db_rows the unique index of `table` holds under `key`: uniq_cycle_user on
\* user_cycle, uniq_position on position.
indexed(table, key) == {r \in db_rows : r.table = table /\ r.key = key}

\* What a query of worker w sees.
visible(w) == {r \in db_rows : r.committed \/ r.owner = w}

\* db.session.rollback(): the db_rows the transaction inserted are gone.
rolled_back(w) == {r \in db_rows : r.committed \/ r.owner # w}

\* INSERT of a row by worker w and what the request does next.  It waits
\* while another transaction in progress holds the key; it fails with
\* IntegrityError, and the request is rolled back, when a committed row holds
\* the key.
insert(w, table, key, next_pc) ==
    /\ \A r \in indexed(table, key) : r.committed \/ r.owner = w
    /\ IF indexed(table, key) # {}
       THEN /\ db_rows' = rolled_back(w)
            /\ sessions' = [sessions EXCEPT ![w] = Idle("IntegrityError")]
       ELSE /\ db_rows' = db_rows \cup {[table |-> table, key |-> key, owner |-> w,
                                   committed |-> FALSE]}
            /\ sessions' = [sessions EXCEPT ![w].pc = next_pc]

usercycle_key(w) == <<get_or_create_cycle, sessions[w].user>>
position_key(w) == <<sessions[w].user, "m1", sessions[w].outcome>>

\* handle_request: a worker takes a request.
Begin(w) ==
    /\ UNCHANGED served
    /\ sessions[w].pc = "idle"
    /\ \E op \in {"balance", "buy"}, user \in Users, outcome \in {1, 2} :
           sessions' = [sessions EXCEPT ![w] =
                           [pc |-> "lookup_uc", op |-> op, user |-> user,
                            outcome |-> IF op = "buy" THEN outcome ELSE 0,
                            result |-> "none"]]
    /\ UNCHANGED db_rows

\* get_or_create_usercycle: UserCycle.query.filter(...).first()
LookupAccount(w) ==
    /\ UNCHANGED served
    /\ sessions[w].pc = "lookup_uc"
    /\ sessions' = [sessions EXCEPT ![w].pc =
                        IF \E r \in visible(w) :
                               r.table = "user_cycle" /\ r.key = usercycle_key(w)
                        THEN IF sessions[w].op = "buy" THEN "lookup_pos"
                             ELSE "commit"
                        ELSE "insert_uc"]
    /\ UNCHANGED db_rows

\* get_or_create_usercycle: db.session.add(uc); db.session.flush()
InsertAccount(w) ==
    /\ UNCHANGED served
    /\ sessions[w].pc = "insert_uc"
    /\ insert(w, "user_cycle", usercycle_key(w),
              IF sessions[w].op = "buy" THEN "lookup_pos" ELSE "commit")

\* buy: Position.query.filter(...).first()
LookupPosition(w) ==
    /\ UNCHANGED served
    /\ sessions[w].pc = "lookup_pos"
    /\ sessions' = [sessions EXCEPT ![w].pc =
                        IF \E r \in visible(w) :
                               r.table = "position" /\ r.key = position_key(w)
                        THEN "commit" ELSE "insert_pos"]
    /\ UNCHANGED db_rows

\* buy: db.session.add(pos), flushed before the commit.
InsertPosition(w) ==
    /\ UNCHANGED served
    /\ sessions[w].pc = "insert_pos"
    /\ insert(w, "position", position_key(w), "commit")

\* handle_request: db.session.commit()
Commit(w) ==
    /\ UNCHANGED served
    /\ sessions[w].pc = "commit"
    /\ db_rows' = {[r EXCEPT !.committed = TRUE] : r \in {x \in db_rows : x.owner = w}}
                 \cup {r \in db_rows : r.owner # w}
    /\ sessions' = [sessions EXCEPT ![w] = Idle("ok")]

RaceNext ==
    \/ \E w \in Workers : Begin(w)
    \/ \E w \in Workers : LookupAccount(w)
    \/ \E w \in Workers : InsertAccount(w)
    \/ \E w \in Workers : LookupPosition(w)
    \/ \E w \in Workers : InsertPosition(w)
    \/ \E w \in Workers : Commit(w)

RaceSpec == Init /\ [][RaceNext]_vars

(***************************************************************************)
(* Two buys at once.  Each worker serves a buy in its own session and      *)
(* transaction (PostgreSQL, read committed; no query of buy locks a row and *)
(* no table has a version column).  A session keeps the rows it loaded:    *)
(* the account at line 177, the outcomes at line 185.  The assignments of  *)
(* lines 303-305 are flushed by the query of line 309 as UPDATE statements *)
(* that set the values the session computed; an UPDATE waits while another *)
(* transaction in progress has updated the row.  The accounts exist and    *)
(* are topped up for the day, so that the request inserts no account.      *)
(***************************************************************************)
\* Lines 181-301 of buy on the rows the session loaded: the error raised, or
\* the trade found.
buy_trade(balance_read, spend_f, target_idx, qs, b) ==
    IF balance_read < spend_f
    THEN [error |-> "InsufficientBalance", dq |-> 0, cost |-> 0]
    ELSE IF Len(qs) < 2
    THEN [error |-> "Misconfigured", dq |-> 0, cost |-> 0]
    ELSE IF target_idx = 0
    THEN [error |-> "UnknownOutcome", dq |-> 0, cost |-> 0]
    ELSE IF b <= 0
    THEN [error |-> "InvalidParams", dq |-> 0, cost |-> 0]
    ELSE IF isinf(lmsr_cost(qs, b))
    THEN [error |-> "StateInvalid", dq |-> 0, cost |-> 0]
    ELSE locate_trade(qs, b, target_idx, spend_f, balance_read)

\* The requests being served.
in_flight == {w \in Workers : sessions[w].pc # "idle"}

\* Lines 157-179 of buy: the request is validated, the market and the account
\* are loaded.
ReadAccount(w) ==
    /\ sessions[w].pc = "idle"
    /\ Len(trades) + Cardinality(in_flight) < MaxTrades
    /\ \E user \in Users, market_name \in MarketNames,
          outcome_symbol \in {"A", "B"}, spend_f \in Stakes :
           /\ market_name \in DOMAIN markets
           /\ ~market_is_closed(markets[market_name])
           /\ <<get_or_create_cycle, user>> \in DOMAIN usercycles
           /\ usercycles[<<get_or_create_cycle, user>>].last_topup_date = today
           /\ sessions' =
                  [sessions EXCEPT ![w] =
                      [pc |-> "outcomes", op |-> "buy", user |-> user,
                       market |-> market_name, symbol |-> outcome_symbol,
                       spend_f |-> spend_f, cycle |-> get_or_create_cycle,
                       uc |-> usercycles[<<get_or_create_cycle, user>>],
                       outcome |-> 0, q |-> 0, dq |-> 0, cost |-> 0,
                       shares |-> 0, result |-> "none"]]
    /\ UNCHANGED <<now, markets, outcomes, positions, cycles, usercycles,
                   trades, last, pricing, db_rows, tally, calc>>

\* The session of worker w after lines 181-301 found `trade` for the outcome
\* target_idx on the quantities qs.
session_priced(w, target_idx, qs, trade) ==
    IF trade.error # "ok"
    THEN Idle(trade.error)
    ELSE [sessions[w] EXCEPT !.pc = "flush", !.outcome = target_idx,
                             !.q = qs[target_idx], !.dq = trade.dq,
                             !.cost = trade.cost]

\* Lines 181-301 of buy: the outcomes are loaded and the trade is sized and
\* priced on their quantities.
ReadOutcomes(w) ==
    /\ sessions[w].pc = "outcomes"
    /\ sessions' =
           [sessions EXCEPT ![w] =
               session_priced(
                   w,
                   find_outcome(get_outcomes(sessions[w].market),
                                sessions[w].symbol),
                   quantities(get_outcomes(sessions[w].market)),
                   buy_trade(sessions[w].uc.balance, sessions[w].spend_f,
                             find_outcome(get_outcomes(sessions[w].market),
                                          sessions[w].symbol),
                             quantities(get_outcomes(sessions[w].market)),
                             markets[sessions[w].market].b))]
    /\ UNCHANGED <<now, markets, outcomes, positions, cycles, usercycles,
                   trades, last, pricing, db_rows, tally, calc>>

\* Worker `other` has updated, and not committed, a row that worker w
\* updates: the account of the same user or the same outcome.
row_locked(w, other) ==
    /\ other # w
    /\ sessions[other].pc = "commit"
    /\ \/ sessions[other].user = sessions[w].user
       \/ /\ sessions[other].market = sessions[w].market
          /\ sessions[other].outcome = sessions[w].outcome

\* Lines 303-313 of buy: the balance, the bet count and the quantity are
\* assigned from the loaded rows and flushed by the query of the position,
\* which loads the committed position.
Flush(w) ==
    /\ sessions[w].pc = "flush"
    /\ \A other \in Workers : ~row_locked(w, other)
    /\ sessions' =
           [sessions EXCEPT
               ![w].pc = "commit",
               ![w].shares =
                   IF <<sessions[w].user, sessions[w].market,
                        sessions[w].outcome>> \in DOMAIN positions
                   THEN positions[<<sessions[w].user, sessions[w].market,
                                    sessions[w].outcome>>]
                   ELSE 0]
    /\ UNCHANGED <<now, markets, outcomes, positions, cycles, usercycles,
                   trades, last, pricing, db_rows, tally, calc>>

\* Lines 315-337 of buy and the commit of handle_request: the updates of the
\* session become the committed rows, the trade is logged.
CommitTrade(w) ==
    /\ sessions[w].pc = "commit"
    /\ usercycles' =
           [usercycles EXCEPT
               ![<<sessions[w].cycle, sessions[w].user>>] =
                   [@ EXCEPT !.balance = sessions[w].uc.balance - sessions[w].cost,
                             !.bet_count = sessions[w].uc.bet_count + 1]]
    /\ outcomes' =
           [outcomes EXCEPT ![sessions[w].market][sessions[w].outcome].q =
                                sessions[w].q + sessions[w].dq]
    /\ positions' =
           Put(positions,
               <<sessions[w].user, sessions[w].market, sessions[w].outcome>>,
               sessions[w].shares + sessions[w].dq)
    /\ trades' =
           Append(trades,
                  [cycle_id |-> sessions[w].cycle, user_id |-> sessions[w].user,
                   market |-> sessions[w].market,
                   outcome |-> sessions[w].outcome, side |-> "buy",
                   shares |-> sessions[w].dq, amount |-> sessions[w].cost])
    /\ sessions' = [sessions EXCEPT ![w] = Idle("ok")]
    /\ UNCHANGED <<now, markets, cycles, last, pricing, db_rows, tally, calc>>

OverlapNext ==
    \/ OpenMarket
    \/ Balance
    \/ \E w \in Workers : ReadAccount(w)
    \/ \E w \in Workers : ReadOutcomes(w)
    \/ \E w \in Workers : Flush(w)
    \/ \E w \in Workers : CommitTrade(w)

OverlapSpec == Init /\ [][OverlapNext]_vars

(***************************************************************************)
(* The closing of a month on any accounts: the rows of user_cycle are      *)
(* drawn at the start, up to MaxAccounts of them in any order of bet       *)
(* counts and balances, and close_month computes on them.                  *)
(***************************************************************************)
\* The bet counts and the balances of the rows.
BetCounts == {1, 2, 5, 9}
Balances == {STARTING_BALANCE \div 2, STARTING_BALANCE}

AccountRows(n) ==
    {[i \in 1..n |-> [user |-> i, bet_count |-> f[i][1], balance |-> f[i][2]]] :
        f \in [1..n -> BetCounts \X Balances]}

\* The lists of at most `most` rows.
Ledgers(most) == UNION {AccountRows(n) : n \in 0..most}

\* Lines 537-549 of close_month on the rows.
Tally ==
    /\ ~tally.done
    /\ tally' =
           IF tally.rows = <<>>
           THEN [tally EXCEPT !.done = TRUE, !.med_val = 0]
           ELSE [tally EXCEPT
                    !.done = TRUE,
                    !.med_val = int(median(sorted(bet_counts(tally.rows)))),
                    !.eligible =
                        eligible(tally.rows,
                                 int(median(sorted(bet_counts(tally.rows))))),
                    !.winner =
                        winner(eligible(tally.rows,
                                        int(median(sorted(bet_counts(tally.rows))))))]
    /\ UNCHANGED <<now, markets, outcomes, positions, cycles, usercycles,
                   trades, last, pricing, db_rows, sessions, calc>>

TallyInit ==
    /\ Start
    /\ pricing = LMSR
    /\ tally \in {[NoTally EXCEPT !.rows = rows] : rows \in Ledgers(MaxAccounts)}
    /\ calc = NoCalc

TallyNext == Tally

TallySpec == TallyInit /\ [][TallyNext]_vars

(***************************************************************************)
(* A buy and the sale of the same shares, in floating point.  The handlers *)
(* above add and subtract tick counts exactly; the program adds and        *)
(* subtracts binary floats, and each sum is rounded to the significant     *)
(* bits of the format (53 in binary64, Mantissa here).  The quantities,    *)
(* the position and the trade size are drawn at the start among the values *)
(* of the format; the buy and then the sell are applied to them.           *)
(***************************************************************************)
RECURSIVE bit_length(_)
bit_length(x) == IF x = 0 THEN 0 ELSE 1 + bit_length(x \div 2)

\* The spacing of the floats around x.
ulp(x) == IF bit_length(x) <= Mantissa THEN 1 ELSE 2 ^ (bit_length(x) - Mantissa)

\* x >= 0 rounded to the nearest float, ties to even.
fl(x) ==
    LET lo == (x \div ulp(x)) * ulp(x)
    IN IF 2 * (x - lo) < ulp(x) THEN lo
       ELSE IF 2 * (x - lo) > ulp(x) THEN lo + ulp(x)
       ELSE IF (lo \div ulp(x)) % 2 = 0 THEN lo
       ELSE lo + ulp(x)

\* The floats up to `most`.
Floats(most) == {fl(x) : x \in 0..most}

\* The largest quantity and the largest trade size drawn.
MaxQuantity == 3 * DEFAULT_LIQUIDITY_B
TradeSizes == {fl(x) : x \in {1, 5, Unit, 2 * Unit, 3 * Unit}}

\* The markets of two outcomes, the holder's position in the first outcome
\* (no more than its quantity) and the shares to buy.
RoundTrips ==
    {[fn |-> "roundtrip", stage |-> "open", qs |-> <<t[1], t[2]>>,
      b |-> DEFAULT_LIQUIDITY_B, shares |-> t[3], dq |-> t[4],
      qs_before |-> <<t[1], t[2]>>, shares_before |-> t[3],
      cost |-> 0, refund |-> 0] :
        t \in {u \in Floats(MaxQuantity) \X {0, 2 * Unit}
                       \X {0, Unit \div 2, Unit} \X TradeSizes :
                   u[3] <= u[1]}}

\* Lines 303-323 of buy and buy_cost on floats: qs2[idx] += dq,
\* target_outcome.q += dq and pos.shares += dq are rounded sums.
RoundTripBuy ==
    /\ calc.fn = "roundtrip"
    /\ calc.stage = "open"
    /\ calc' =
           IF isinf(cost_increase(
                        lmsr_cost(calc.qs, calc.b),
                        lmsr_cost([calc.qs EXCEPT ![1] = fl(@ + calc.dq)], calc.b)))
           THEN [calc EXCEPT !.stage = "refused"]
           ELSE [calc EXCEPT
                    !.stage = "bought",
                    !.cost = cost_increase(
                                 lmsr_cost(calc.qs, calc.b),
                                 lmsr_cost([calc.qs EXCEPT ![1] = fl(@ + calc.dq)],
                                           calc.b)),
                    !.qs = [calc.qs EXCEPT ![1] = fl(@ + calc.dq)],
                    !.shares = fl(@ + calc.dq)]
    /\ UNCHANGED <<now, markets, outcomes, positions, cycles, usercycles,
                   trades, last, pricing, db_rows, sessions, tally>>

\* Lines 385-407 of sell and sell_refund on floats, the shares sold being the
\* shares bought: qs2[idx] -= dq, target_outcome.q -= shares_f and
\* pos.shares -= shares_f are rounded differences.
RoundTripSell ==
    /\ calc.fn = "roundtrip"
    /\ calc.stage = "bought"
    /\ calc' =
           IF calc.shares < calc.dq \/ calc.qs[1] < calc.dq
           THEN [calc EXCEPT !.stage = "refused"]
           ELSE [calc EXCEPT
                    !.stage = "sold",
                    !.refund = refund_of(
                                   lmsr_cost(calc.qs, calc.b),
                                   lmsr_cost([calc.qs EXCEPT ![1] = fl(@ - calc.dq)],
                                             calc.b)),
                    !.qs = [calc.qs EXCEPT ![1] = fl(@ - calc.dq)],
                    !.shares = fl(@ - calc.dq)]
    /\ UNCHANGED <<now, markets, outcomes, positions, cycles, usercycles,
                   trades, last, pricing, db_rows, sessions, tally>>

RoundTripInit ==
    /\ Start
    /\ pricing = LMSR
    /\ tally = NoTally
    /\ calc \in RoundTrips

RoundTripNext == RoundTripBuy \/ RoundTripSell

RoundTripSpec == RoundTripInit /\ [][RoundTripNext]_vars

(***************************************************************************)
(* lmsr_prices and lmsr_cost on drawn arguments: quantity vectors of up to *)
(* MaxOutcomes outcomes, among them the all-zero ones and quantities       *)
(* beyond what b can divide within the range of a float, with liquidity    *)
(* parameters from the smallest to the largest positive float.             *)
(***************************************************************************)
Quantities == {0, Unit \div 2, 2 * Unit, 6 * Unit, 10000 * Unit}
Liquidities ==
    {1, DEFAULT_LIQUIDITY_B, 10 * DEFAULT_LIQUIDITY_B, (inf - 1) \div 2, inf - 1}

\* The quantity vectors of n outcomes.
Vectors(n) == [1..n -> Quantities]

PricingCalls ==
    {[fn |-> fn, stage |-> "open", qs |-> qs, b |-> b, result |-> <<>>] :
        fn \in {"lmsr_prices", "lmsr_cost"},
        qs \in UNION {Vectors(n) : n \in 1..MaxOutcomes},
        b \in Liquidities}

Prices ==
    /\ calc.fn = "lmsr_prices"
    /\ calc.stage = "open"
    /\ calc' = [calc EXCEPT !.stage = "done",
                            !.result = lmsr_prices(calc.qs, calc.b)]
    /\ UNCHANGED <<now, markets, outcomes, positions, cycles, usercycles,
                   trades, last, pricing, db_rows, sessions, tally>>

Cost ==
    /\ calc.fn = "lmsr_cost"
    /\ calc.stage = "open"
    /\ calc' = [calc EXCEPT !.stage = "done",
                            !.result = lmsr_cost(calc.qs, calc.b)]
    /\ UNCHANGED <<now, markets, outcomes, positions, cycles, usercycles,
                   trades, last, pricing, db_rows, sessions, tally>>

LmsrInit ==
    /\ Start
    /\ pricing = LMSR
    /\ tally = NoTally
    /\ calc \in PricingCalls

LmsrNext == Prices \/ Cost

LmsrSpec == LmsrInit /\ [][LmsrNext]_vars

(***************************************************************************)
(* commands.py, buy: the search of lines 229-288 one evaluation of the     *)
(* cost at a time.  A step is one pass through the body of the seed loop,  *)
(* of the expansion loop or of the binary search; `calc` holds the locals  *)
(* of the search between two passes.  The request is run by one thread     *)
(* that nothing suspends, so a pass that can be made is made.              *)
(***************************************************************************)
\* The cost functions the search is stepped on: those of CostFunctions and one
\* that never evaluates.
SearchFunctions ==
    CostFunctions
        \cup {[base |-> 0, num |-> 1, den |-> 1, inf_from |-> 0, inf_to |-> inf]}

\* high = None, low = 0.0, best_dq = 0.0, best_cost = 0.0
NoBracket ==
    [high |-> None, low |-> 0, best_dq |-> 0, best_cost |-> 0, failed |-> FALSE]

\* The searches that are stepped: a market of two outcomes in three states,
\* two liquidities, every budget, the balance covering the budget exactly.
Searches ==
    {[fn |-> "search", phase |-> "seed", k |-> 1, st |-> NoBracket,
      doublings |-> 0, iteration |-> 0, qs |-> qs, b |-> b, idx |-> 1,
      spend_f |-> spend_f, found |-> [error |-> "none", dq |-> 0, cost |-> 0]] :
        qs \in {<<0, 0>>, <<4 * Unit, 0>>, <<0, 4 * Unit>>},
        b \in {Unit \div 2, DEFAULT_LIQUIDITY_B}, spend_f \in Budgets}

\* The search is over: it raised, or its result went through the validation.
finished(search) ==
    [search EXCEPT !.phase = "done",
                   !.found = located(search.st, search.spend_f, search.spend_f)]

\* for seed in seed_values: one seed, or the end of the list.
SeedStep ==
    /\ calc.fn = "search"
    /\ calc.phase = "seed"
    /\ IF calc.k > Len(seed_values) THEN calc' = finished(calc)
       ELSE \E c \in {safe_buy_cost(calc.qs, calc.b, calc.idx, seed_values[calc.k])} :
              calc' = IF isfinite(c) /\ c > 0
                      THEN [calc EXCEPT !.phase = "expand",
                                        !.st = seed_bracket(seed_values[calc.k], c,
                                                            calc.spend_f)]
                      ELSE [calc EXCEPT !.k = calc.k + 1]
    /\ UNCHANGED <<now, markets, outcomes, positions, cycles, usercycles,
                   trades, last, pricing, db_rows, sessions, tally>>

\* while True: one pass, which doubles high and goes round again, or breaks.
ExpandStep ==
    /\ calc.fn = "search"
    /\ calc.phase = "expand"
    /\ \E c \in {safe_buy_cost(calc.qs, calc.b, calc.idx, calc.st.high)} :
         \E nxt \in {expand_body(calc.st, c, calc.spend_f)} :
           calc' =
             IF expand_again(calc.st, c, calc.spend_f)
             THEN [calc EXCEPT !.st = nxt, !.doublings = calc.doublings + 1]
             ELSE IF nxt.failed THEN finished([calc EXCEPT !.st = nxt])
             ELSE [calc EXCEPT !.st = nxt, !.phase = "bisect"]
    /\ UNCHANGED <<now, markets, outcomes, positions, cycles, usercycles,
                   trades, last, pricing, db_rows, sessions, tally>>

\* for iteration in range(60): one iteration, or the end of the range.
BisectStep ==
    /\ calc.fn = "search"
    /\ calc.phase = "bisect"
    /\ IF calc.iteration = BISECT_ITERATIONS THEN calc' = finished(calc)
       ELSE \E mid \in {(calc.st.low + calc.st.high) \div 2} :
              \E cost \in {safe_buy_cost(calc.qs, calc.b, calc.idx, mid)} :
                calc' = [calc EXCEPT !.st = bisect_update(calc.st, mid, cost,
                                                          calc.spend_f),
                                     !.iteration = calc.iteration + 1]
    /\ UNCHANGED <<now, markets, outcomes, positions, cycles, usercycles,
                   trades, last, pricing, db_rows, sessions, tally>>

SearchInit ==
    /\ Start
    /\ pricing \in SearchFunctions
    /\ tally = NoTally
    /\ calc \in Searches

SearchNext == SeedStep \/ ExpandStep \/ BisectStep

SearchSafetySpec == SearchInit /\ [][SearchNext]_vars

SearchSpec == SearchSafetySpec /\ WF_vars(SearchNext)

(***************************************************************************)
(* The shares of one outcome, in floating point.  Outcome.q and            *)
(* Position.shares are Float columns: buy adds the trade size to the       *)
(* quantity of the outcome and to the position of the buyer, sell takes    *)
(* the shares sold from both, and each sum and difference is rounded to    *)
(* the significant bits of the format.  `calc` holds the quantity of the   *)
(* outcome and the position of each user in it, from the creation of the   *)
(* market on; the requests are served one at a time.                       *)
(***************************************************************************)
\* The sizes of the trades: what the search of buy locates and what a seller
\* names.
ShareSizes == {fl(x) : x \in {1, 5, Unit, 16, 3 * Unit}}

\* Outcome(q=0.0) and no position row.
NoHoldings ==
    [fn |-> "holdings", q |-> 0, shares |-> [user \in Users |-> 0], count |-> 0,
     op |-> "none", result |-> "none"]

\* Lines 306 and 324 of buy: target_outcome.q += dq, pos.shares += dq.
HoldBuy ==
    /\ calc.fn = "holdings"
    /\ calc.count < MaxFloatTrades
    /\ \E user \in Users, dq \in ShareSizes :
           calc' = [calc EXCEPT !.q = fl(@ + dq),
                                !.shares[user] = fl(@ + dq),
                                !.count = @ + 1,
                                !.op = "buy", !.result = "ok"]
    /\ UNCHANGED <<now, markets, outcomes, positions, cycles, usercycles,
                   trades, last, pricing, db_rows, sessions, tally>>

\* Lines 385-406 of sell: the check of the seller's shares, the check of the
\* outcome's quantity, then pos.shares -= shares_f, target_outcome.q -= shares_f.
HoldSell ==
    /\ calc.fn = "holdings"
    /\ calc.count < MaxFloatTrades + 1
    /\ \E user \in Users :
         \E shares_f \in (ShareSizes \cup {calc.shares[user]}) \ {0} :
           calc' =
             IF calc.shares[user] < shares_f
             THEN [calc EXCEPT !.op = "sell", !.result = "InsufficientShares"]
             ELSE IF calc.q < shares_f
             THEN [calc EXCEPT !.op = "sell", !.result = "InsufficientLiquidity"]
             ELSE [calc EXCEPT !.shares[user] = fl(@ - shares_f),
                               !.q = fl(@ - shares_f),
                               !.count = @ + 1,
                               !.op = "sell", !.result = "ok"]
    /\ UNCHANGED <<now, markets, outcomes, positions, cycles, usercycles,
                   trades, last, pricing, db_rows, sessions, tally>>

HoldingsInit ==
    /\ Start
    /\ pricing = LMSR
    /\ tally = NoTally
    /\ calc = NoHoldings

HoldingsNext == HoldBuy \/ HoldSell

HoldingsSpec == HoldingsInit /\ [][HoldingsNext]_vars

(***************************************************************************)
(* Properties.  A step is named by the response it records: `last'` is the *)
(* request the step served and its result.                                 *)
(***************************************************************************)
Served(op) == last'.op = op
Succeeded(op) == last'.op = op /\ last'.result = "ok"
Failed(op) == last'.op = op /\ last'.result # "ok"

\* The Period Account a request of `user` works on: the account of the
\* current cycle, created if absent, after the daily top-up that is due.
AccountAtRequest(user) ==
    ensure_daily_topup_for_usercycle(
        get_or_create_usercycle(usercycles, get_or_create_cycle, user)
            [<<get_or_create_cycle, user>>])

\* The shares of a position, 0 when the row does not exist.
SharesHeld(user, market_name, idx) ==
    IF <<user, market_name, idx>> \in DOMAIN positions
    THEN positions[<<user, market_name, idx>>] ELSE 0

LatestTrade == trades'[Len(trades')]

\* C1: a market that is resolved or cancelled keeps its lifecycle state in
\* every step, whatever request the step serves.
C1_TerminalStateIsFinal ==
    [][\A m \in DOMAIN markets :
          markets[m].status # "open" => markets'[m].status = markets[m].status]_vars

\* C2: a successful buy appends one trade record (side buy, shares dq > 0,
\* amount c, c the LMSR cost of dq) and changes exactly: the outcome's
\* quantity by +dq, the buyer's position by +dq (from 0 if the row is new),
\* the buyer's account, taken after the due top-up, by -c and one more bet;
\* a buy that fails changes no table.
C2_BuyEffect ==
    [][/\ Succeeded("buy") =>
            /\ trades' = Append(trades, LatestTrade)
            /\ LatestTrade.side = "buy"
            /\ LatestTrade.user_id = last'.user
            /\ LatestTrade.market = last'.market
            /\ LatestTrade.cycle_id = get_or_create_cycle
            /\ LatestTrade.shares > 0
            /\ LatestTrade.amount =
                   buy_cost(quantities(outcomes[last'.market]),
                            markets[last'.market].b,
                            LatestTrade.outcome, LatestTrade.shares)
            /\ outcomes' = [outcomes EXCEPT
                   ![last'.market][LatestTrade.outcome].q = @ + LatestTrade.shares]
            /\ positions' =
                   Put(positions, <<last'.user, last'.market, LatestTrade.outcome>>,
                       SharesHeld(last'.user, last'.market, LatestTrade.outcome)
                           + LatestTrade.shares)
            /\ usercycles' =
                   Put(usercycles, <<get_or_create_cycle, last'.user>>,
                       [AccountAtRequest(last'.user) EXCEPT
                            !.balance = @ - LatestTrade.amount,
                            !.bet_count = @ + 1])
            /\ UNCHANGED <<now, markets>>
       /\ Failed("buy") => UNCHANGED tables]_vars

\* C2, its case: a buy has succeeded on a position the buyer already held,
\* debiting an account that an earlier buy had debited and that two daily
\* top-ups have credited.
C2_Witness ==
    /\ last.op = "buy" /\ last.result = "ok"
    /\ Len(trades) = 2
    /\ trades[1].user_id = last.user /\ trades[1].outcome = trades[2].outcome
    /\ trades[1].side = "buy"
    /\ trades[1].cycle_id = trades[2].cycle_id
    /\ usercycles[<<trades[2].cycle_id, last.user>>].balance =
           STARTING_BALANCE + 2 * DAILY_TOPUP - trades[1].amount - trades[2].amount

\* C3: a successful sell of s shares appends one trade record (side sell,
\* shares s, amount refund, the LMSR refund of s) and changes exactly: the
\* outcome's quantity by -s, the seller's position by -s, the seller's
\* account, taken after the due top-up, by +refund and one more bet.
C3_SellEffect ==
    [][Succeeded("sell") =>
            /\ trades' = Append(trades, LatestTrade)
            /\ LatestTrade.side = "sell"
            /\ LatestTrade.user_id = last'.user
            /\ LatestTrade.market = last'.market
            /\ LatestTrade.cycle_id = get_or_create_cycle
            /\ LatestTrade.shares = last'.amount
            /\ LatestTrade.amount =
                   sell_refund(quantities(outcomes[last'.market]),
                               markets[last'.market].b,
                               LatestTrade.outcome, LatestTrade.shares)
            /\ outcomes' = [outcomes EXCEPT
                   ![last'.market][LatestTrade.outcome].q = @ - last'.amount]
            /\ <<last'.user, last'.market, LatestTrade.outcome>> \in DOMAIN positions
            /\ positions' = [positions EXCEPT
                   ![<<last'.user, last'.market, LatestTrade.outcome>>] = @ - last'.amount]
            /\ usercycles' =
                   Put(usercycles, <<get_or_create_cycle, last'.user>>,
                       [AccountAtRequest(last'.user) EXCEPT
                            !.balance = @ + LatestTrade.amount,
                            !.bet_count = @ + 1])
            /\ UNCHANGED <<now, markets>>]_vars

\* C3, its case: a sell of part of a position has succeeded with a positive
\* refund, crediting an account that the buy had debited and that two daily
\* top-ups have credited.
C3_Witness ==
    /\ last.op = "sell" /\ last.result = "ok"
    /\ Len(trades) = 2
    /\ trades[2].amount > 0
    /\ positions[<<last.user, last.market, trades[2].outcome>>] > 0
    /\ trades[1].cycle_id = trades[2].cycle_id
    /\ usercycles[<<trades[2].cycle_id, last.user>>].balance =
           STARTING_BALANCE + 2 * DAILY_TOPUP - trades[1].amount + trades[2].amount

\* The request of the step names a market that exists.
OnMarket == last'.market \in DOMAIN markets

\* The outcome a resolve step has just recorded as the winner.
Winner == markets'[last'.market].resolved_outcome_id

\* C4 as stated: a successful resolve changes the balance of every account
\* of the current cycle by exactly the shares its user holds in the winning
\* outcome (0 for a user who holds none).
C4_PayoutIsExactlyShares ==
    [][Succeeded("resolve") =>
          \A u \in Users :
              <<get_or_create_cycle, u>> \in DOMAIN usercycles =>
                  usercycles'[<<get_or_create_cycle, u>>].balance =
                      usercycles[<<get_or_create_cycle, u>>].balance
                          + SharesHeld(u, last'.market, Winner)]_vars

\* C4 amended: a successful resolve credits every user with a position row
\* in the winning outcome the shares of that row, on top of the user's
\* account of the current cycle after its creation and due daily top-up
\* (also when the row holds 0 shares); every other account, of every user
\* and cycle, and every position, quantity and trade record is unchanged.
C4_PayoutAfterTopUp ==
    [][Succeeded("resolve") =>
          /\ \A u \in Users :
                IF <<u, last'.market, Winner>> \in DOMAIN positions
                THEN usercycles'[<<get_or_create_cycle, u>>] =
                         [AccountAtRequest(u) EXCEPT
                              !.balance = @ + positions[<<u, last'.market, Winner>>]]
                ELSE <<get_or_create_cycle, u>> \in DOMAIN usercycles'
                         => /\ <<get_or_create_cycle, u>> \in DOMAIN usercycles
                            /\ usercycles'[<<get_or_create_cycle, u>>] =
                                   usercycles[<<get_or_create_cycle, u>>]
          /\ DOMAIN usercycles \subseteq DOMAIN usercycles'
          /\ \A k \in DOMAIN usercycles' :
                k[1] # get_or_create_cycle
                    => k \in DOMAIN usercycles /\ usercycles'[k] = usercycles[k]
          /\ UNCHANGED <<now, outcomes, positions, trades>>]_vars

\* C4, its case: a market has been resolved with a winner holding shares
\* and a loser holding shares of another outcome only; the winner's account
\* had a top-up due (two top-ups, the cost of one buy, the shares), the
\* loser's account was not touched on the day of the resolve.
C4_Witness ==
    /\ last.op = "resolve" /\ last.result = "ok"
    /\ Len(trades) = 2
    /\ trades[1].user_id # trades[2].user_id
    /\ trades[1].cycle_id = cycle_key_for_dt(now)
    /\ trades[2].cycle_id = cycle_key_for_dt(now)
    /\ trades[1].outcome = markets[last.market].resolved_outcome_id
    /\ trades[2].outcome # markets[last.market].resolved_outcome_id
    /\ trades[1].side = "buy" /\ trades[2].side = "buy"
    /\ usercycles[<<cycle_key_for_dt(now), trades[1].user_id>>].balance =
           STARTING_BALANCE + 2 * DAILY_TOPUP - trades[1].amount + trades[1].shares
    /\ usercycles[<<cycle_key_for_dt(now), trades[2].user_id>>].last_topup_date # now

\* A resolve or cancel step asked by a user who is not the market's creator.
ByNonCreator ==
    /\ Served("resolve") \/ Served("cancel")
    /\ OnMarket
    /\ markets[last'.market].creator_user_id # last'.user

\* C5 as stated: resolve or cancel asked by a user other than the creator is
\* rejected with the authorization error and changes no table.
C5_NonCreatorGetsAuthorizationError ==
    [][ByNonCreator => last'.result = "NotCreator" /\ UNCHANGED tables]_vars

\* C5 amended: resolve or cancel asked by a user other than the creator is
\* rejected and changes no table; the error is the one of the market's state
\* when it has one (resolve: already resolved, cancelled; cancel: already
\* cancelled) and the authorization error otherwise.
C5_NonCreatorIsRejected ==
    [][ByNonCreator =>
          /\ UNCHANGED tables
          /\ last'.result =
                 IF Served("resolve")
                 THEN IF markets[last'.market].status = "resolved"
                      THEN "AlreadyResolved"
                      ELSE IF markets[last'.market].when_cancelled # None
                      THEN "Cancelled"
                      ELSE "NotCreator"
                 ELSE IF markets[last'.market].when_cancelled # None
                      THEN "AlreadyCancelled"
                      ELSE "NotCreator"]_vars

\* C5, its case: a user who is not the creator has asked to resolve an open
\* market in which shares are held, and got the authorization error.
C5_Witness ==
    /\ last.op = "resolve" /\ last.result = "NotCreator"
    /\ markets[last.market].creator_user_id # last.user
    /\ markets[last.market].status = "open"
    /\ \E k \in DOMAIN positions : k[2] = last.market /\ positions[k] > 0

\* C6: resolve on a resolved market fails as AlreadyResolved, resolve on a
\* cancelled market as Cancelled, cancel on a cancelled market as
\* AlreadyCancelled, each changing no table; a resolve succeeds only on an
\* open market, which it leaves resolved, and no market becomes open again:
\* the winners of a market are paid at most once.
C6_PaidAtMostOnce ==
    [][/\ Served("resolve") /\ OnMarket /\ markets[last'.market].status = "resolved"
            => last'.result = "AlreadyResolved" /\ UNCHANGED tables
       /\ Served("resolve") /\ OnMarket /\ markets[last'.market].status = "cancelled"
            => last'.result = "Cancelled" /\ UNCHANGED tables
       /\ Served("cancel") /\ OnMarket /\ markets[last'.market].status = "cancelled"
            => last'.result = "AlreadyCancelled" /\ UNCHANGED tables
       /\ Succeeded("resolve")
            => /\ markets[last'.market].status = "open"
               /\ markets'[last'.market].status = "resolved"
       /\ ~Succeeded("resolve") /\ ~Succeeded("buy") /\ ~Succeeded("sell")
            => UNCHANGED usercycles
       /\ \A m \in DOMAIN markets :
             markets[m].status # "open" => markets'[m].status # "open"]_vars

\* C6, its case: the creator has asked again to resolve a resolved market
\* whose winning outcome has a holder, and was refused.
C6_Witness ==
    /\ last.op = "resolve" /\ last.result = "AlreadyResolved"
    /\ markets[last.market].creator_user_id = last.user
    /\ \E u \in Users :
          SharesHeld(u, last.market, markets[last.market].resolved_outcome_id) > 0

\* C7: a successful cancel sets the market's status and cancellation time
\* and changes nothing else: no account, position, quantity or trade record.
C7_CancelFrame ==
    [][Succeeded("cancel") =>
          /\ markets' = [markets EXCEPT ![last'.market].status = "cancelled",
                                        ![last'.market].when_cancelled = now]
          /\ UNCHANGED <<now, outcomes, positions, cycles, usercycles, trades>>]_vars

\* C7, its case: an open market in which shares are held has been cancelled
\* on a later day than the holder's top-up.
C7_Witness ==
    /\ last.op = "cancel" /\ last.result = "ok"
    /\ \E k \in DOMAIN positions :
          /\ k[2] = last.market /\ positions[k] > 0
          /\ <<cycle_key_for_dt(now), k[1]>> \in DOMAIN usercycles
          /\ usercycles[<<cycle_key_for_dt(now), k[1]>>].last_topup_date # now

\* C8 as stated: a buy or sell of a positive amount on an existing market is
\* rejected as MarketClosed exactly when the market is not open or the
\* current time is at or past its closing time.
C8_ClosedAtOrPastClosingTime ==
    [][(Served("buy") \/ Served("sell")) /\ OnMarket /\ last'.amount > 0 =>
          (last'.result = "MarketClosed"
              <=> \/ markets[last'.market].status # "open"
                  \/ now >= markets[last'.market].when_closes)]_vars

RECURSIVE held_of(_, _, _)
held_of(users, market_name, idx) ==
    IF users = {} THEN 0
    ELSE LET u == CHOOSE v \in users : TRUE
         IN SharesHeld(u, market_name, idx) + held_of(users \ {u}, market_name, idx)

C11_BalanceWithinBounds ==
    \A k \in DOMAIN usercycles :
        /\ usercycles[k].balance >= 0
        /\ usercycles[k].balance <= BALANCE_CAP

\* C12: every successful buy debits the account, as it stands after the due
\* top-up, by a cost that is at least 0 and at most the requested budget, and
\* records that cost in the trade; whatever the market's quantities and
\* whatever cost function the search evaluates.
C12_CostWithinBudget ==
    [][Succeeded("buy") =>
          LET debit == AccountAtRequest(last'.user).balance
                       - usercycles'[<<get_or_create_cycle, last'.user>>].balance
          IN /\ debit >= 0
             /\ debit <= last'.amount
             /\ LatestTrade.amount = debit]_vars

\* A buy that succeeded although the expansion stopped at the cap with the
\* cost still within the budget and the binary search met sizes whose cost
\* is not finite.
C12_Witness ==
    /\ pricing = NearlyFreeWithGap
    /\ last.op = "buy" /\ last.result = "ok"
    /\ trades # <<>>
    /\ trades[Len(trades)].shares > cap \div 2
    /\ trades[Len(trades)].shares = NearlyFreeWithGap.inf_from - 1
    /\ trades[Len(trades)].amount <= last.amount

\* What the request served by a step adds to the balance of account k besides
\* any top-up: minus the cost of a buy, plus the refund of a sell, plus the
\* shares of a winning position at a resolve.
TradeCredit(k) ==
    IF k[1] # get_or_create_cycle THEN 0
    ELSE IF Succeeded("buy") /\ last'.user = k[2] THEN 0 - LatestTrade.amount
    ELSE IF Succeeded("sell") /\ last'.user = k[2] THEN LatestTrade.amount
    ELSE IF Succeeded("resolve")
            /\ <<k[2], last'.market, markets'[last'.market].resolved_outcome_id>>
                   \in DOMAIN positions
    THEN positions[<<k[2], last'.market,
                     markets'[last'.market].resolved_outcome_id>>]
    ELSE 0

\* C13: an account already topped up today is credited no top-up again by any
\* step, whether the step is a buy, a sell, a balance request, a resolve or the
\* sweep: its marker stays and its balance changes by the trade or payout of
\* the step alone; and the sweep, when let in, succeeds.
C13_ToppedUpOncePerDay ==
    [][/\ \A k \in DOMAIN usercycles :
              usercycles[k].last_topup_date = today =>
                  /\ k \in DOMAIN usercycles'
                  /\ usercycles'[k].last_topup_date = usercycles[k].last_topup_date
                  /\ usercycles'[k].balance =
                         usercycles[k].balance + TradeCredit(k)
       /\ Served("daily_topup") /\ last'.result # "forbidden" =>
              last'.result = "ok"]_vars

\* The sweep has run over an account that a buy created and topped up earlier
\* the same day, and the account holds one top-up.
C13_Witness ==
    /\ last.op = "daily_topup" /\ last.result = "ok"
    /\ now = 0
    /\ Len(trades) = 1
    /\ trades[1].side = "buy"
    /\ <<0, trades[1].user_id>> \in DOMAIN usercycles
    /\ usercycles[<<0, trades[1].user_id>>].last_topup_date = 0
    /\ usercycles[<<0, trades[1].user_id>>].balance =
           STARTING_BALANCE + DAILY_TOPUP - trades[1].amount

\* C14: a step that tops up an account not yet topped up today (its marker
\* becomes today) sets the balance to the smaller of the ceiling and the
\* balance plus the increment, before the trade or payout of the step.
C14_TopUpIsCapped ==
    [][\A k \in DOMAIN usercycles :
           /\ usercycles[k].last_topup_date # today
           /\ usercycles'[k].last_topup_date = today
           => usercycles'[k].balance =
                  (IF usercycles[k].balance + DAILY_TOPUP > BALANCE_CAP
                   THEN BALANCE_CAP
                   ELSE usercycles[k].balance + DAILY_TOPUP) + TradeCredit(k)]_vars

\* A balance request on the second day of an account that never traded: the
\* balance plus the increment passes the ceiling, and the balance is the
\* ceiling.
C14_Witness ==
    /\ last.op = "balance" /\ last.result = "ok"
    /\ now = 1
    /\ trades = <<>>
    /\ STARTING_BALANCE + DAILY_TOPUP < BALANCE_CAP
    /\ STARTING_BALANCE + 2 * DAILY_TOPUP > BALANCE_CAP
    /\ <<0, last.user>> \in DOMAIN usercycles
    /\ usercycles[<<0, last.user>>] =
           [balance |-> BALANCE_CAP, bet_count |-> 0, last_topup_date |-> 1]

\* The row a top-up at the start of a request makes of an account row.
ToppedUp(balance_before, bet_count_before, marker_before) ==
    IF marker_before = today
    THEN [balance |-> balance_before, bet_count |-> bet_count_before,
          last_topup_date |-> marker_before]
    ELSE [balance |-> IF balance_before + DAILY_TOPUP > BALANCE_CAP
                      THEN BALANCE_CAP ELSE balance_before + DAILY_TOPUP,
          bet_count |-> bet_count_before, last_topup_date |-> today]

\* C15: a balance request or a successful buy of a user without an account in
\* the current cycle creates the account from the starting balance, bet count
\* 0 and no marker (then topped up, and debited and counted by the buy); a
\* balance request of a user with an account takes the account as it is, the
\* balance and the bet count unchanged but for the top-up that is due; no
\* other account changes.
C15_AccountCreatedOnFirstUse ==
    [][Served("balance") \/ Succeeded("buy") =>
          LET key == <<get_or_create_cycle, last'.user>>
              first == ToppedUp(STARTING_BALANCE, 0, None)
          IN /\ DOMAIN usercycles' = DOMAIN usercycles \cup {key}
             /\ \A k \in DOMAIN usercycles \ {key} :
                    usercycles'[k] = usercycles[k]
             /\ key \notin DOMAIN usercycles /\ Served("balance") =>
                    usercycles'[key] = first
             /\ key \notin DOMAIN usercycles /\ Succeeded("buy") =>
                    usercycles'[key] =
                        [first EXCEPT !.balance = @ - LatestTrade.amount,
                                      !.bet_count = 1]
             /\ key \in DOMAIN usercycles /\ Served("balance") =>
                    usercycles'[key] =
                        ToppedUp(usercycles[key].balance,
                                 usercycles[key].bet_count,
                                 usercycles[key].last_topup_date)]_vars

\* A balance request was the first use of the month by a user, on the second
\* day, while the other user holds an account with a bet: the new account is
\* the starting balance and one top-up, no bets.
C15_Witness ==
    /\ last.op = "balance"
    /\ now = 1
    /\ <<0, last.user>> \in DOMAIN usercycles
    /\ usercycles[<<0, last.user>>] =
           [balance |-> STARTING_BALANCE + DAILY_TOPUP, bet_count |-> 0,
            last_topup_date |-> 1]
    /\ \E k \in DOMAIN usercycles : k[2] # last.user /\ usercycles[k].bet_count = 1

\* C16: at every point of two requests served at once, no two rows of
\* user_cycle are of the same cycle and user and no two rows of position of
\* the same user, market and outcome, committed or not.
C16_OneRowPerKey ==
    \A r1 \in db_rows : \A r2 \in db_rows :
        r1.table = r2.table /\ r1.key = r2.key => r1 = r2

\* Two requests of one user both looked the account up before either inserted
\* it: one committed the only row, and the insert of the other failed and
\* its request was rolled back.
C16_Witness ==
    /\ \E w \in Workers : \E v \in Workers \ {w} :
           /\ sessions[w] = Idle("IntegrityError")
           /\ sessions[v] = Idle("ok")
    /\ Cardinality(db_rows) = 1
    /\ \A r \in db_rows : r.table = "user_cycle" /\ r.committed

\* The current cycle has been closed.
Closed ==
    /\ get_or_create_cycle \in DOMAIN cycles
    /\ cycles[get_or_create_cycle].when_closed # None

KthSmallest(rs, k) ==
    CHOOSE v \in {rs[i].bet_count : i \in DOMAIN rs} :
        /\ Cardinality({i \in DOMAIN rs : rs[i].bet_count < v}) < k
        /\ k <= Cardinality({i \in DOMAIN rs : rs[i].bet_count <= v})

\* Twice the median of the bet counts of the rows: twice the middle value, or
\* the sum of the two middle values.
TwiceMedian(rs) ==
    IF Len(rs) % 2 = 1 THEN 2 * KthSmallest(rs, (Len(rs) + 1) \div 2)
    ELSE KthSmallest(rs, Len(rs) \div 2) + KthSmallest(rs, Len(rs) \div 2 + 1)

\* The users whose bet count is strictly above the median.
AboveMedian(rs) ==
    {rs[i].user : i \in {j \in DOMAIN rs : 2 * rs[j].bet_count > TwiceMedian(rs)}}

\* C18: the rows the closing of a month takes as eligible are exactly the
\* rows whose bet count is strictly greater than the median of the bet counts
\* of all the rows, the mean of the two middle values when their number is
\* even; a row at the median is not eligible.
C18_EligibleAboveMedian ==
    tally.done =>
        /\ {tally.eligible[i].user : i \in DOMAIN tally.eligible}
               = AboveMedian(tally.rows)
        /\ \A i \in DOMAIN tally.rows :
               2 * tally.rows[i].bet_count = TwiceMedian(tally.rows) =>
                   \A j \in DOMAIN tally.eligible :
                       tally.eligible[j].user # tally.rows[i].user

\* The month was closed on bet counts 1, 1, 5, 5, 9: the median is 5 and the
\* row with 9 bets alone is eligible.
C18_Witness ==
    /\ tally.done
    /\ bet_counts(tally.rows) = <<1, 1, 5, 5, 9>>
    /\ tally.med_val = 5
    /\ Len(tally.eligible) = 1
    /\ tally.eligible[1].bet_count = 9

\* C19: the winner the closing of a month computes is a user whose bet count
\* is above the median and whose balance is at least the balance of every
\* other such user; there is no winner exactly when no bet count is above the
\* median, as when there are no rows.
C19_WinnerIsRichestEligible ==
    tally.done =>
        /\ tally.winner = None <=> AboveMedian(tally.rows) = {}
        /\ tally.winner # None =>
               /\ tally.winner \in AboveMedian(tally.rows)
               /\ \A i \in DOMAIN tally.rows :
                      tally.rows[i].user \in AboveMedian(tally.rows) =>
                          tally.rows[i].balance <= tally.rows[tally.winner].balance

\* A month was closed on two eligible rows, the second the richer: it wins.
C19_Witness ==
    /\ tally.done
    /\ Len(tally.eligible) = 2
    /\ tally.eligible[1].balance < tally.eligible[2].balance
    /\ tally.winner = tally.eligible[2].user
    /\ Len(tally.rows) = 4

\* C20: a buy or a sell that fails, for whatever reason, leaves every table as
\* it was: markets, outcome quantities, positions, cycles, accounts (balance,
\* bet count, marker, and the rows there are) and trades.
C20_FailedTradeChangesNothing ==
    [][Failed("buy") \/ Failed("sell") =>
          /\ markets' = markets
          /\ outcomes' = outcomes
          /\ positions' = positions
          /\ cycles' = cycles
          /\ usercycles' = usercycles
          /\ trades' = trades]_vars

\* A buy failed in the search for the trade, after the account of the buyer
\* had been created and topped up in the session: there is no account and no
\* cycle.
C20_Witness ==
    /\ last.op = "buy"
    /\ last.result \in {"InvalidCost", "TradeCalculationFailed", "MarketIllLiquid"}
    /\ <<cycle_key_for_dt(now), last.user>> \notin DOMAIN usercycles
    /\ cycle_key_for_dt(now) \notin DOMAIN cycles
    /\ last.market \in DOMAIN markets

\* The shares of the outcome idx of a market that the first n trades of the
\* log added to it.
RECURSIVE SharesLogged(_, _, _)
SharesLogged(market_name, idx, n) ==
    IF n = 0 THEN 0
    ELSE SharesLogged(market_name, idx, n - 1)
         + (IF trades[n].market = market_name /\ trades[n].outcome = idx
            THEN (IF trades[n].side = "buy" THEN trades[n].shares
                  ELSE 0 - trades[n].shares)
            ELSE 0)

\* The quantities of a market before the n-th trade of the log, as the log
\* gives them.
QuantitiesLogged(market_name, n) ==
    [idx \in 1..Len(outcomes[market_name]) |->
        SharesLogged(market_name, idx, n - 1)]

\* No request is being served.
Quiet == \A w \in Workers : sessions[w].pc = "idle"

\* C21: buys of one market served at the same time are priced one after the
\* other.  Whenever no request is in progress, the quantity of every outcome
\* is its initial 0 plus the shares of every committed trade on it, and every
\* committed buy has the cost of its shares on the quantities the trades
\* before it left.
C21_BuysPricedInTurn ==
    Quiet =>
        \A market_name \in DOMAIN outcomes :
            /\ \A idx \in 1..Len(outcomes[market_name]) :
                   outcomes[market_name][idx].q =
                       SharesLogged(market_name, idx, Len(trades))
            /\ \A n \in 1..Len(trades) :
                   trades[n].market = market_name /\ trades[n].side = "buy" =>
                       trades[n].amount =
                           buy_cost(QuantitiesLogged(market_name, n),
                                    markets[market_name].b, trades[n].outcome,
                                    trades[n].shares)

\* The amounts of the first n trades of the log charged to a user.
RECURSIVE CostsLogged(_, _)
CostsLogged(user, n) ==
    IF n = 0 THEN 0
    ELSE CostsLogged(user, n - 1)
         + (IF trades[n].user_id # user THEN 0
            ELSE IF trades[n].side = "buy" THEN trades[n].amount
            ELSE 0 - trades[n].amount)

\* The number of trades of a user in the log.
TradesLogged(user) ==
    Cardinality({n \in 1..Len(trades) : trades[n].user_id = user})

\* C22: trades of one user served at the same time debit the account one
\* after the other.  Whenever no request is in progress, every account holds
\* what it held when it was opened and topped up, less the cost of every
\* committed trade of the user, never less than 0, and its bet count is the
\* number of those trades.
C22_TradesDebitedInTurn ==
    Quiet =>
        \A k \in DOMAIN usercycles :
            /\ usercycles[k].balance =
                   STARTING_BALANCE + DAILY_TOPUP - CostsLogged(k[2], Len(trades))
            /\ usercycles[k].balance >= 0
            /\ usercycles[k].bet_count = TradesLogged(k[2])

\* C23: the trade log is append-only.  No step changes or removes a record
\* of the log; a buy or a sell that succeeds appends one record, and every
\* other step (create, resolve, cancel, the daily sweep, the closing of the
\* month, a request that fails, the passing of time) leaves the log as it is.
C23_TradeLogAppendOnly ==
    [][/\ Len(trades') >= Len(trades)
       /\ SubSeq(trades', 1, Len(trades)) = trades
       /\ IF Succeeded("buy") \/ Succeeded("sell")
          THEN Len(trades') = Len(trades) + 1
          ELSE trades' = trades]_vars

\* A market with a buy and a sell in the log has been cancelled, and both
\* records are in the log.
C23_Witness ==
    /\ last.op = "cancel"
    /\ last.result = "ok"
    /\ Len(trades) = 2
    /\ trades[1].side = "buy"
    /\ trades[2].side = "sell"
    /\ trades[1].market = last.market

\* C24: create with a name a market already has, or with fewer than two
\* non-empty outcome symbols, fails, as DuplicateName when the name is taken
\* and as TooFewOutcomes otherwise, and the markets and the outcomes in the
\* store are those there were.
C24_RejectedCreateLeavesNothing ==
    [][\A user \in Creators, market_name \in MarketNames,
          when_closes \in ClosingTimes, outcomes_csv \in OutcomeLists :
           /\ create(user, market_name, when_closes, outcomes_csv)
           /\ \/ market_name \in DOMAIN markets
              \/ Len(split_symbols(outcomes_csv)) < 2
           => /\ last'.result = IF market_name \in DOMAIN markets
                                THEN "DuplicateName" ELSE "TooFewOutcomes"
              /\ markets' = markets
              /\ outcomes' = outcomes]_vars

\* A create with too few outcomes has been refused and there is no market.
C24_Witness ==
    /\ last.op = "create"
    /\ last.result = "TooFewOutcomes"
    /\ last.market \notin DOMAIN markets
    /\ last.market \notin DOMAIN outcomes

\* C25: create with a closing time that is not in the future fails and
\* creates no market: every market that create stores closes after the time
\* of the request.
C25_CreatedClosingInFuture ==
    [][Succeeded("create") =>
          markets'[last'.market].when_closes > now]_vars

\* The symbols of the outcomes of a market, in their order.
Symbols(outs) == [i \in 1..Len(outs) |-> outs[i].symbol]

\* C26: every market there is has at least two outcomes, of pairwise distinct
\* symbols; the outcomes of a market just created all have quantity 0; and no
\* step (buy, sell, resolve, cancel, succeeding or failing) changes the
\* liquidity parameter b or the outcomes of a market that exists.
C26_OutcomesFixedAtCreation ==
    [][/\ DOMAIN outcomes' = DOMAIN markets'
       /\ \A market_name \in DOMAIN markets' :
              /\ Len(outcomes'[market_name]) >= 2
              /\ \A i, j \in 1..Len(outcomes'[market_name]) :
                     i # j => outcomes'[market_name][i].symbol
                                  # outcomes'[market_name][j].symbol
       /\ Succeeded("create") =>
              \A i \in 1..Len(outcomes'[last'.market]) :
                  outcomes'[last'.market][i].q = 0
       /\ \A market_name \in DOMAIN markets :
              /\ market_name \in DOMAIN markets'
              /\ markets'[market_name].b = markets[market_name].b
              /\ Symbols(outcomes'[market_name]) = Symbols(outcomes[market_name])]_vars

\* A market that has been traded on and resolved: its outcomes are the two it
\* was created with, one of them with shares outstanding.
C26_Witness ==
    /\ last.op = "resolve"
    /\ last.result = "ok"
    /\ Len(trades) = 2
    /\ Symbols(outcomes[last.market]) = <<"A", "B">>
    /\ outcomes[last.market][1].q > 0
    /\ markets[last.market].b = DEFAULT_LIQUIDITY_B

\* C27: a buy of dq shares of an outcome followed at once by the sale of the
\* same dq shares refunds no more than the buy cost, and leaves the quantity
\* of the outcome and the position of the holder as they were before the buy.
C27_RoundTripRestores ==
    calc.fn = "roundtrip" /\ calc.stage = "sold" =>
        /\ calc.refund <= calc.cost
        /\ calc.qs = calc.qs_before
        /\ calc.shares = calc.shares_before

\* The prices of a call of lmsr_prices sum to 1 within one rounding step per
\* price (1e-9 is millions of rounding steps of a binary64 quotient).
SumsToOne(prices) ==
    /\ \A i \in 1..Len(prices) : ~isnan(prices[i])
    /\ seq_sum(prices) - Precision <= Len(prices)
    /\ Precision - seq_sum(prices) <= Len(prices)

\* C28: for every quantity vector that is not empty and every b > 0, the
\* prices lmsr_prices returns sum to 1, equal quantities get equal prices, and
\* the prices of n equal quantities (the all-zero vector among them) are 1/n
\* each.
C28_PricesSumToOne ==
    calc.fn = "lmsr_prices" /\ calc.stage = "done" =>
        /\ Len(calc.result) = Len(calc.qs)
        /\ SumsToOne(calc.result)
        /\ \A i, j \in 1..Len(calc.qs) :
               calc.qs[i] = calc.qs[j] => calc.result[i] = calc.result[j]
        /\ (\A i \in 1..Len(calc.qs) : calc.qs[i] = calc.qs[1]) =>
               calc.result = uniform_prices(Len(calc.qs))

\* A call of lmsr_cost on an all-zero vector of two outcomes or more has
\* returned.
ZeroStateCosted ==
    /\ calc.fn = "lmsr_cost"
    /\ calc.stage = "done"
    /\ Len(calc.qs) >= 2
    /\ \A i \in 1..Len(calc.qs) : calc.qs[i] = 0

\* C29, as stated: lmsr_cost returns a finite value on an all-zero vector of
\* two outcomes or more, for any positive b.
C29_ZeroStateCostFiniteForAnyB ==
    ZeroStateCosted /\ calc.b > 0 => isfinite(calc.result)

\* C29: lmsr_cost returns a finite value, not inf, on an all-zero vector of
\* two outcomes or more for every positive b up to half the largest float,
\* and for every positive b when the outcomes are two; the value is not
\* negative.
C29_ZeroStateCostFinite ==
    ZeroStateCosted /\ calc.b > 0
        /\ (calc.b <= (inf - 1) \div 2 \/ Len(calc.qs) = 2)
        => isfinite(calc.result) /\ calc.result >= 0

\* The cost of a market of three outcomes nobody has traded on, with the
\* default b, was computed: b * ln(3).
C29_Witness ==
    /\ ZeroStateCosted
    /\ Len(calc.qs) = 3
    /\ calc.b = DEFAULT_LIQUIDITY_B
    /\ isfinite(calc.result)
    /\ calc.result > DEFAULT_LIQUIDITY_B

\* The most doublings of high from the smallest seed to the cap.
MaxDoublings == bit_length(cap)

SearchBounded ==
    /\ calc.k <= Len(seed_values) + 1
    /\ calc.doublings <= MaxDoublings
    /\ calc.iteration <= BISECT_ITERATIONS

\* C30: every search of a buy ends: it tries at most the seeds of the list,
\* doubles the upper bound at most as often as the cap allows, runs at most
\* the fixed number of iterations of the binary search, and then is over, on
\* every cost function, those always below the budget or never finite included.
C30_BuySearchTerminates ==
    /\ [][SearchBounded']_vars
    /\ <>(calc.phase = "done")

\* A search that doubled its upper bound up to the cap, every cost being
\* below the budget, and ran every iteration of the binary search.
C30_Witness ==
    /\ calc.fn = "search"
    /\ calc.phase = "done"
    /\ pricing = NearlyFree
    /\ calc.st.high > cap
    /\ calc.iteration = BISECT_ITERATIONS

\* What the search of a buy of `spend_f` on outcome idx of the market finds in
\* the state before the step: low, high, best_dq and best_cost after the
\* binary search.
SearchResult(market_name, idx, spend_f) ==
    search_seeded(seed_loop(1, quantities(outcomes[market_name]),
                            markets[market_name].b, idx, spend_f),
                  quantities(outcomes[market_name]), markets[market_name].b,
                  idx, spend_f)

\* A trade that the validation of buy must refuse.
Degenerate(dq, cost, spend_f) ==
    dq < MIN_DQ \/ isinf(cost) \/ cost < 0 \/ cost * 100 > spend_f * 101

FiniteSeedCost(qs, b, idx) ==
    \E k \in 1..Len(seed_values) :
        isfinite(safe_buy_cost(qs, b, idx, seed_values[k]))

\* C32: a search ends as MarketIllLiquid exactly when no seed size has a
\* finite cost: with a finite cost at some seed the buy does not fail as
\* MarketIllLiquid.
C32_IllLiquidOnlyWithoutFiniteSeed ==
    calc.fn = "search" /\ calc.phase = "done" =>
        (calc.found.error = "MarketIllLiquid"
             <=> ~FiniteSeedCost(calc.qs, calc.b, calc.idx))

\* A market that is open although its closing time has passed.
PastClosing(market_name) ==
    /\ market_name \in DOMAIN markets
    /\ markets[market_name].status = "open"
    /\ markets[market_name].when_closes < now

\* C33: on a market that is open and past its closing time, a cancel by the
\* creator succeeds and a resolve by the creator to one of the market's
\* outcomes succeeds; no resolve and no cancel is refused as MarketClosed.
C33_ResolveAndCancelAfterClosing ==
    [][/\ \A user \in Users, market_name \in MarketNames :
            PastClosing(market_name) /\ is_creator(markets[market_name], user) =>
                /\ cancel(user, market_name) =>
                       /\ last'.result = "ok"
                       /\ markets'[market_name].status = "cancelled"
                /\ \A winning_outcome \in SymbolInputs :
                       /\ find_outcome_exact(outcomes[market_name], winning_outcome) # 0
                       /\ resolve(user, market_name, winning_outcome)
                       => /\ last'.result = "ok"
                          /\ markets'[market_name].status = "resolved"
       /\ Served("resolve") \/ Served("cancel") => last'.result # "MarketClosed"]_vars

\* A market resolved after its closing time, on which a buy had been made.
C33_Witness ==
    /\ last.op = "resolve"
    /\ last.result = "ok"
    /\ markets[last.market].status = "resolved"
    /\ markets[last.market].when_resolved > markets[last.market].when_closes
    /\ trades # <<>>

\* The positions of all users in the outcome, added up as floats.
SharesOfAll == fl(calc.shares[1] + calc.shares[2])

\* C34: the outstanding quantity of an outcome equals the sum of the positions
\* of all users in it, in every state reached by buys and sells served one at
\* a time.
C34_QuantityIsSumOfPositions ==
    calc.fn = "holdings" => calc.q = SharesOfAll

\* The trade records of the account k: of its period and its user.
TradesOf(log, k) ==
    Cardinality({n \in 1..Len(log) : log[n].cycle_id = k[1] /\ log[n].user_id = k[2]})

\* C35: the bet counter of every account is the number of trade records of
\* its user and period, and every trade record has its account; in a step the
\* counter of an account never decreases, and it changes only in a successful
\* buy or sell of the account's user.
C35_BetCountIsTradeCount ==
    [][/\ \A k \in DOMAIN usercycles' :
            usercycles'[k].bet_count = TradesOf(trades', k)
       /\ \A n \in 1..Len(trades') :
            <<trades'[n].cycle_id, trades'[n].user_id>> \in DOMAIN usercycles'
       /\ \A k \in DOMAIN usercycles :
            /\ usercycles'[k].bet_count >= usercycles[k].bet_count
            /\ usercycles'[k].bet_count # usercycles[k].bet_count =>
                   /\ Succeeded("buy") \/ Succeeded("sell")
                   /\ last'.user = k[2]
                   /\ k[1] = get_or_create_cycle]_vars

\* An account that counts two bets, a buy and the sale that was just served.
C35_Witness ==
    /\ last.op = "sell"
    /\ last.result = "ok"
    /\ \E k \in DOMAIN usercycles :
           /\ k[2] = last.user
           /\ usercycles[k].bet_count = 2
           /\ TradesOf(trades, k) = 2

\* C36: a daily top-up never decreases a balance: in a step that serves a
\* balance request or the top-up sweep, which do nothing to an account but
\* top it up, no account has a smaller balance after the step than before.
C36_TopUpNeverDecreases ==
    [][Served("balance") \/ Succeeded("daily_topup") =>
          \A k \in DOMAIN usercycles :
              usercycles'[k].balance >= usercycles[k].balance]_vars

\* C37: a sell never fails with InsufficientLiquidity: when the seller's
\* position holds the requested shares, the outstanding quantity of the
\* outcome holds them too, so no sale is answered by the liquidity check.
C37_SellNeverLacksLiquidity ==
    calc.fn = "holdings" =>
        ~(calc.op = "sell" /\ calc.result = "InsufficientLiquidity")

\* The periods that have been closed.
ClosedCycles == {c \in DOMAIN cycles : cycles[c].when_closed # None}

\* C38: once a period is closed, no step changes the balance or the bet
\* counter of an account of that period: the accounts the winner was chosen
\* from stay as they were at the close.
C38_ClosedPeriodIsFrozen ==
    [][\A k \in DOMAIN usercycles :
          k[1] \in ClosedCycles =>
              /\ usercycles'[k].balance = usercycles[k].balance
              /\ usercycles'[k].bet_count = usercycles[k].bet_count]_vars

\* The account of the key k as a request finds it: the row of the table, or a
\* new row when the user has none in the cycle, after the daily top-up.
AccountFound(k) ==
    ensure_daily_topup_for_usercycle(
        IF k \in DOMAIN usercycles THEN usercycles[k] ELSE new_usercycle)

\* C39: a successful sell credits its refund to the seller's account of the
\* cycle that is current when it executes, and a successful resolve credits
\* every holder of the winning outcome in the holder's account of the cycle
\* that is current when it executes; the account is created at the starting
\* balance if the holder has none, and no other account changes. A step that
\* changes the current cycle leaves positions and outcome quantities as
\* they are.
C39_PayoutsGoToCurrentPeriod ==
    [][/\ Succeeded("sell") =>
             LET k == <<get_or_create_cycle, last'.user>>
             IN /\ k \in DOMAIN usercycles'
                /\ usercycles'[k].balance =
                       AccountFound(k).balance + trades'[Len(trades')].amount
                /\ trades'[Len(trades')].cycle_id = get_or_create_cycle
                /\ \A j \in DOMAIN usercycles' \ {k} :
                       j \in DOMAIN usercycles /\ usercycles'[j] = usercycles[j]
       /\ Succeeded("resolve") =>
             LET market_name == last'.market
                 out == markets'[market_name].resolved_outcome_id
                 paid == {<<get_or_create_cycle, p[1]>> :
                             p \in {h \in DOMAIN positions :
                                       h[2] = market_name /\ h[3] = out}}
             IN /\ paid \subseteq DOMAIN usercycles'
                /\ \A k \in paid :
                       usercycles'[k].balance =
                           AccountFound(k).balance
                               + positions[<<k[2], market_name, out>>]
                /\ \A j \in DOMAIN usercycles' \ paid :
                       j \in DOMAIN usercycles /\ usercycles'[j] = usercycles[j]
       /\ get_or_create_cycle' # get_or_create_cycle =>
             positions' = positions /\ outcomes' = outcomes]_vars

\* Shares bought in the first month were sold in the second: the refund is in
\* the seller's account of the second month, which the sale created, and the
\* account of the first month holds what the purchase left.
C39_Witness ==
    /\ last.op = "sell"
    /\ last.result = "ok"
    /\ Len(trades) = 2
    /\ trades[1].side = "buy"
    /\ trades[1].user_id = last.user
    /\ trades[1].cycle_id = 0
    /\ trades[2].cycle_id = 1
    /\ get_or_create_cycle = 1
    /\ usercycles[<<1, last.user>>].balance =
           min(BALANCE_CAP, STARTING_BALANCE + DAILY_TOPUP) + trades[2].amount
    /\ usercycles[<<0, last.user>>].balance < STARTING_BALANCE + DAILY_TOPUP

\* C40: the month-close task called with the valid secret closes the current
\* cycle whenever it is not closed yet: the request is answered ok and the
\* cycle has its closing time, whatever the list of admins.
C40_MonthlyCloseTaskCloses ==
    [][/\ last'.user = SYSTEM
       /\ last'.result # "forbidden"
       /\ \/ get_or_create_cycle \notin DOMAIN cycles
          \/ cycles[get_or_create_cycle].when_closed = None
       => /\ last'.result = "ok"
          /\ get_or_create_cycle \in DOMAIN cycles'
          /\ cycles'[get_or_create_cycle].when_closed # None]_vars
====
